---- MODULE Spec2Model ----
(***************************************************************************)
(* Poetry Slam score calculator (src/app.js, class PoetrySlamCalculator):  *)
(* the per-field separator normalization and validation, the aggregation   *)
(* of a judge panel (drop lowest and highest, sum the rest) and the        *)
(* session around them (judge fields, the delayed calculation callback,    *)
(* the history ledger).                                                    *)
(*                                                                         *)
(* A text is a sequence of one-character strings.  A parsed number is a    *)
(* record [nan, num, fd]: the digits read as the natural number num with   *)
(* fd of them after the decimal point.  A score handed to the aggregation  *)
(* is an integer number of tenths (8.5 is 85).                             *)
(***************************************************************************)
EXTENDS Integers, Sequences, FiniteSets, Bags, TLC

VARIABLES
    judgeInputs,       \* the .judge-input elements of the DOM, in document order: their texts
    participantName,   \* text of the #participantName field
    currentJudgeCount, \* this.currentJudgeCount
    rafQueue,          \* requestAnimationFrame callbacks of generateJudgeInputs, oldest first
    calcTimers,        \* pending 500 ms callbacks of calculateScore, oldest first
    currentResult,     \* this.currentResult
    history,           \* this.history
    storedHistory,     \* localStorage 'poetrySlamHistory'
    storedAutoSave,    \* localStorage 'poetrySlamAutoSave'
    now,               \* Date.now()
    inputTimeout,      \* the 500 ms timer of the input listener (inputTimeout) is pending
    autoSaveTimeout,   \* the timer of triggerAutoSave (this.autoSaveTimeout) is pending
    timerInterval,     \* this.timerInterval: <<>> for null, else the id setInterval returned
    liveIntervals,     \* ids of the intervals of updateTimer the browser holds
    timerStartTime,    \* this.timerStartTime: <<>> for null, else the clock reading
    timerDuration,     \* this.timerDuration, seconds
    timerRemaining,    \* this.timerRemaining, seconds
    timerPaused,       \* this.timerPaused
    timerPauseTime,    \* this.timerPauseTime
    deployedVersion,   \* the version the server serves: cache-bust meta tag and worker script
    pageState,         \* where the document is in loading
    pageVersion,       \* content of the document's meta tag cache-bust
    storedCacheVersion, \* localStorage 'poetry-slam-cache-version', "" when absent
    activeWorker,      \* registration.active: version of its script, "" when there is none
    waitingWorker,     \* registration.waiting, likewise
    skipWaitingFlag,   \* the waiting worker has called self.skipWaiting()
    controller,        \* navigator.serviceWorker.controller of the page, likewise
    promptShown,       \* the .pwa-update-notification element is in the document
    updateAccepted,    \* applyUpdate has posted SKIP_WAITING to the waiting worker
    reloadTimer,       \* the reload handleControllerChange scheduled is pending
    dataTheme,         \* the data-bs-theme attribute of the document
    themeIcon,         \* what #themeIcon shows
    storedTheme,       \* localStorage 'theme'
    currentView,       \* this.currentView
    shownView,         \* the history pane updateView made visible
    storedViewMode,    \* localStorage 'viewMode'
    caches,            \* the service worker's CacheStorage: cache name |-> cached URLs
    toasts,            \* notifications raised by the handler that ran last
    arg,               \* input of the function under study (function-level specifications)
    ret                \* its results

prefVars == <<dataTheme, themeIcon, storedTheme, currentView, shownView, storedViewMode>>

timerVars == <<timerInterval, liveIntervals, timerStartTime, timerDuration, timerRemaining,
               timerPaused, timerPauseTime>>

deployVars == <<deployedVersion, pageState, pageVersion, storedCacheVersion, activeWorker,
                waitingWorker, skipWaitingFlag, controller, promptShown, updateAccepted,
                reloadTimer>>

vars == <<judgeInputs, participantName, currentJudgeCount, rafQueue, calcTimers,
          currentResult, history, storedHistory, storedAutoSave, now, timerVars, deployVars, inputTimeout, autoSaveTimeout, prefVars,
          caches, toasts, arg, ret>>

appVars == <<judgeInputs, participantName, currentJudgeCount, rafQueue, calcTimers,
             currentResult, history, storedHistory, storedAutoSave, now, timerVars, deployVars, inputTimeout, autoSaveTimeout, prefVars,
             caches, toasts>>


(***************************************************************************)
(* Bounds of the model.                                                    *)
(***************************************************************************)
MaxLen == 5        \* longest text drawn for a judge field
MaxPanel == 5      \* largest panel drawn for the aggregation alone

(***************************************************************************)
(* Characters and texts.                                                   *)
(***************************************************************************)
Digits == {"0", "1", "2", "5", "8"}
Comma == ","
Dot == "."
Chars == Digits \cup {Comma, Dot}

DigitVal(c) ==
    CASE c = "0" -> 0 [] c = "1" -> 1 [] c = "2" -> 2 [] c = "3" -> 3 [] c = "4" -> 4
      [] c = "5" -> 5 [] c = "6" -> 6 [] c = "7" -> 7 [] c = "8" -> 8 [] c = "9" -> 9

IsDigit(c) == c \in {"0", "1", "2", "3", "4", "5", "6", "7", "8", "9"}

Texts == UNION {[1..n -> Chars] : n \in 0..MaxLen}

RECURSIVE Pow10(_)
Pow10(n) == IF n = 0 THEN 1 ELSE 10 * Pow10(n - 1)

\* (value.match(/c/g) || []).length
CountOf(value, c) == Cardinality({i \in 1..Len(value) : value[i] = c})

\* value.indexOf(c), value.lastIndexOf(c): 0-based, -1 when absent
IndexOf(value, c) ==
    IF \E i \in 1..Len(value) : value[i] = c
    THEN (CHOOSE i \in 1..Len(value) : value[i] = c /\ \A j \in 1..(i - 1) : value[j] # c) - 1
    ELSE -1

LastIndexOf(value, c) ==
    IF \E i \in 1..Len(value) : value[i] = c
    THEN (CHOOSE i \in 1..Len(value) : value[i] = c /\ \A j \in (i + 1)..Len(value) : value[j] # c) - 1
    ELSE -1

\* value.includes(c)
Includes(value, c) == \E i \in 1..Len(value) : value[i] = c

\* value.substring(from) and value.substring(from, to), 0-based, to exclusive
SubstringFrom(value, from) == SubSeq(value, from + 1, Len(value))
Substring(value, from, to) == SubSeq(value, from + 1, to)

\* value.replace(/c/g, '')
RemoveAll(value, c) == SelectSeq(value, LAMBDA x : x # c)

\* value.replace(c, d) with a string pattern: the first occurrence only
ReplaceFirst(value, c, d) ==
    IF Includes(value, c) THEN [value EXCEPT ![IndexOf(value, c) + 1] = d] ELSE value

\* value.split('.'): parts[0] and parts[1] (parts[1] read only when value includes '.')
SplitPart0(value) ==
    IF Includes(value, Dot) THEN Substring(value, 0, IndexOf(value, Dot)) ELSE value

SplitPart1(value) ==
    LET rest == SubstringFrom(value, IndexOf(value, Dot) + 1)
    IN  IF Includes(rest, Dot) THEN Substring(rest, 0, IndexOf(rest, Dot)) ELSE rest

(***************************************************************************)
(* parseFloat on a text over digits, commas and periods: the longest       *)
(* prefix of the form digits [. digits], NaN when it holds no digit.       *)
(***************************************************************************)
RECURSIVE DigitPrefixLen(_)
DigitPrefixLen(value) ==
    IF value # <<>> /\ IsDigit(Head(value)) THEN 1 + DigitPrefixLen(Tail(value)) ELSE 0

RECURSIVE DigitsToNat(_)
DigitsToNat(ds) ==
    IF ds = <<>> THEN 0
    ELSE 10 * DigitsToNat(SubSeq(ds, 1, Len(ds) - 1)) + DigitVal(ds[Len(ds)])

NaN == [nan |-> TRUE, num |-> 0, fd |-> 0]

ParseFloat(value) ==
    LET il == DigitPrefixLen(value)
        ip == SubSeq(value, 1, il)
        rest == SubSeq(value, il + 1, Len(value))
        fl == IF rest # <<>> /\ Head(rest) = Dot THEN DigitPrefixLen(Tail(rest)) ELSE 0
        fp == SubSeq(rest, 2, fl + 1)
    IN  IF il = 0 /\ fl = 0 THEN NaN
        ELSE [nan |-> FALSE, num |-> DigitsToNat(ip) * Pow10(fl) + DigitsToNat(fp), fd |-> fl]

\* numValue < 1.0, numValue > 10.0
LessThanOne(v) == v.num < Pow10(v.fd)
GreaterThanTen(v) == v.num > 10 * Pow10(v.fd)

\* the JS number as tenths; exact whenever the number has at most one fraction digit
Tenths(v) == IF v.fd = 0 THEN 10 * v.num ELSE v.num \div Pow10(v.fd - 1)

(***************************************************************************)
(* Separator normalization.  The program holds three copies of it, in      *)
(* getScores, getCurrentScores and limitDecimalPlaces, and a fourth in the *)
(* debugging script; each is translated from its own lines.                *)
(***************************************************************************)
\* faulty variant: a repeated separator is not reduced to its first occurrence
NormalizeGetScores_NoReduce(value0) ==
    LET commaCount == CountOf(value0, Comma)
        dotCount == CountOf(value0, Dot)
    IN  IF commaCount > 0 /\ dotCount > 0
        THEN IF LastIndexOf(value0, Comma) > LastIndexOf(value0, Dot)
             THEN ReplaceFirst(RemoveAll(value0, Dot), Comma, Dot)
             ELSE RemoveAll(value0, Comma)
        ELSE IF commaCount > 0 THEN ReplaceFirst(value0, Comma, Dot) ELSE value0

\* faulty variant: of a comma and a period the left one is kept
NormalizeGetScores_KeepLeft(value0) ==
    LET commaCount == CountOf(value0, Comma)
        dotCount == CountOf(value0, Dot)
        value1 == IF commaCount > 1
                  THEN Substring(value0, 0, IndexOf(value0, Comma) + 1)
                         \o RemoveAll(SubstringFrom(value0, IndexOf(value0, Comma) + 1), Comma)
                  ELSE value0
        value2 == IF dotCount > 1
                  THEN Substring(value1, 0, IndexOf(value1, Dot) + 1)
                         \o RemoveAll(SubstringFrom(value1, IndexOf(value1, Dot) + 1), Dot)
                  ELSE value1
    IN  IF commaCount > 0 /\ dotCount > 0
        THEN IF LastIndexOf(value2, Comma) < LastIndexOf(value2, Dot)
             THEN ReplaceFirst(RemoveAll(value2, Dot), Comma, Dot)
             ELSE RemoveAll(value2, Comma)
        ELSE IF commaCount > 0 THEN ReplaceFirst(value2, Comma, Dot) ELSE value2

\* getScores, the statements between validation and parseFloat
NormalizeGetScores(value0) ==
    LET commaCount == CountOf(value0, Comma)
        dotCount == CountOf(value0, Dot)
        \* if (commaCount > 1) keep only the first comma
        value1 == IF commaCount > 1
                  THEN Substring(value0, 0, IndexOf(value0, Comma) + 1)
                         \o RemoveAll(SubstringFrom(value0, IndexOf(value0, Comma) + 1), Comma)
                  ELSE value0
        \* if (dotCount > 1) keep only the first dot
        value2 == IF dotCount > 1
                  THEN Substring(value1, 0, IndexOf(value1, Dot) + 1)
                         \o RemoveAll(SubstringFrom(value1, IndexOf(value1, Dot) + 1), Dot)
                  ELSE value1
    IN  IF commaCount > 0 /\ dotCount > 0
        THEN IF LastIndexOf(value2, Comma) > LastIndexOf(value2, Dot)
             THEN ReplaceFirst(RemoveAll(value2, Dot), Comma, Dot)
             ELSE RemoveAll(value2, Comma)
        ELSE IF commaCount > 0 THEN ReplaceFirst(value2, Comma, Dot) ELSE value2

\* getCurrentScores, the statements between trim() and scores[input.id] = value
NormalizeCurrentScores(value0) ==
    LET commaCount == CountOf(value0, Comma)
        dotCount == CountOf(value0, Dot)
        value1 == IF commaCount > 1
                  THEN Substring(value0, 0, IndexOf(value0, Comma) + 1)
                         \o RemoveAll(SubstringFrom(value0, IndexOf(value0, Comma) + 1), Comma)
                  ELSE value0
        value2 == IF dotCount > 1
                  THEN Substring(value1, 0, IndexOf(value1, Dot) + 1)
                         \o RemoveAll(SubstringFrom(value1, IndexOf(value1, Dot) + 1), Dot)
                  ELSE value1
    IN  IF commaCount > 0 /\ dotCount > 0
        THEN IF LastIndexOf(value2, Comma) > LastIndexOf(value2, Dot)
             THEN ReplaceFirst(RemoveAll(value2, Dot), Comma, Dot)
             ELSE RemoveAll(value2, Comma)
        ELSE IF commaCount > 0 THEN ReplaceFirst(value2, Comma, Dot) ELSE value2

\* faulty variant: a lone comma is left as it is
NormalizeLimit_NoConvert(value0) ==
    LET commaCount == CountOf(value0, Comma)
        dotCount == CountOf(value0, Dot)
    IN  IF commaCount > 1 \/ dotCount > 1 \/ (commaCount > 0 /\ dotCount > 0)
        THEN NormalizeGetScores(value0)
        ELSE value0

\* limitDecimalPlaces, up to and including "Convert comma to dot for consistency"
NormalizeLimit(value0) ==
    LET commaCount == CountOf(value0, Comma)
        dotCount == CountOf(value0, Dot)
        issues == commaCount > 1 \/ dotCount > 1 \/ (commaCount > 0 /\ dotCount > 0)
        value1 == IF issues /\ commaCount > 1
                  THEN Substring(value0, 0, IndexOf(value0, Comma) + 1)
                         \o RemoveAll(SubstringFrom(value0, IndexOf(value0, Comma) + 1), Comma)
                  ELSE value0
        value2 == IF issues /\ dotCount > 1
                  THEN Substring(value1, 0, IndexOf(value1, Dot) + 1)
                         \o RemoveAll(SubstringFrom(value1, IndexOf(value1, Dot) + 1), Dot)
                  ELSE value1
        value3 == IF issues /\ commaCount > 0 /\ dotCount > 0
                  THEN IF LastIndexOf(value2, Comma) > LastIndexOf(value2, Dot)
                       THEN ReplaceFirst(RemoveAll(value2, Dot), Comma, Dot)
                       ELSE RemoveAll(value2, Comma)
                  ELSE value2
    IN  IF Includes(value3, Comma) THEN ReplaceFirst(value3, Comma, Dot) ELSE value3

\* faulty variant: the fraction is rounded to one digit, as toFixed(1) would
TruncateFraction_Rounded(value) ==
    IF Includes(value, Dot) /\ Len(SplitPart1(value)) > 1
    THEN LET first == SplitPart1(value)[1]
             up == IsDigit(SplitPart1(value)[2]) /\ DigitVal(SplitPart1(value)[2]) >= 5
             rounded == IF up /\ IsDigit(first) /\ DigitVal(first) < 9
                        THEN <<"1", "2", "3", "4", "5", "6", "7", "8", "9">>[DigitVal(first) + 1]
                        ELSE first
         IN  SplitPart0(value) \o <<Dot, rounded>>
    ELSE value

\* limitDecimalPlaces, "Limit to one decimal place"
TruncateFraction(value) ==
    IF Includes(value, Dot) /\ Len(SplitPart1(value)) > 1
    THEN SplitPart0(value) \o <<Dot>> \o Substring(SplitPart1(value), 0, 1)
    ELSE value

\* faulty variant: the fraction is left as long as it is
LimitDecimalPlaces_NoTruncate(value) == NormalizeLimit(value)

\* limitDecimalPlaces: the text the field holds afterwards
LimitDecimalPlaces(value) == TruncateFraction(NormalizeLimit(value))

\* debugMultipleSeparators of the debugging script
DebugMultipleSeparators(value0) ==
    LET commaCount == CountOf(value0, Comma)
        dotCount == CountOf(value0, Dot)
        value1 == IF commaCount > 1
                  THEN Substring(value0, 0, IndexOf(value0, Comma) + 1)
                         \o RemoveAll(SubstringFrom(value0, IndexOf(value0, Comma) + 1), Comma)
                  ELSE value0
        value2 == IF dotCount > 1
                  THEN Substring(value1, 0, IndexOf(value1, Dot) + 1)
                         \o RemoveAll(SubstringFrom(value1, IndexOf(value1, Dot) + 1), Dot)
                  ELSE value1
    IN  IF commaCount > 0 /\ dotCount > 0
        THEN IF LastIndexOf(value2, Comma) > LastIndexOf(value2, Dot)
             THEN ReplaceFirst(RemoveAll(value2, Dot), Comma, Dot)
             ELSE RemoveAll(value2, Comma)
        ELSE IF commaCount > 0 THEN ReplaceFirst(value2, Comma, Dot) ELSE value2

(***************************************************************************)
(* validateInput: the boolean it returns (ok), the class it leaves on the  *)
(* field (cls) and the feedback text it shows, named by its kind.          *)
(***************************************************************************)
\* faulty variant: no range check
ValidateInput_NoRange(value) ==
    LET commaCount == CountOf(value, Comma)
        dotCount == CountOf(value, Dot)
        normalizedValue == IF commaCount > 0 THEN ReplaceFirst(value, Comma, Dot) ELSE value
        numValue == ParseFloat(normalizedValue)
    IN  IF value = <<>>
        THEN [ok |-> FALSE, cls |-> "", kind |-> "Empty"]
        ELSE IF Includes(normalizedValue, Dot) /\ Len(SplitPart1(normalizedValue)) > 1
        THEN [ok |-> FALSE, cls |-> "is-invalid", kind |-> "TooManyFractionDigits"]
        ELSE IF commaCount > 1 \/ dotCount > 1 \/ (commaCount > 0 /\ dotCount > 0)
        THEN [ok |-> FALSE, cls |-> "is-invalid", kind |-> "MultipleSeparators"]
        ELSE IF numValue.nan \/ LessThanOne(numValue)
        THEN [ok |-> FALSE, cls |-> "is-invalid", kind |-> "OutOfRange"]
        ELSE [ok |-> TRUE, cls |-> "is-valid", kind |-> "Valid"]

\* faulty variant: the comma is not converted before parsing
ValidateInput_NoCommaConversion(value) ==
    LET commaCount == CountOf(value, Comma)
        dotCount == CountOf(value, Dot)
        normalizedValue == value
        numValue == ParseFloat(normalizedValue)
    IN  IF value = <<>>
        THEN [ok |-> FALSE, cls |-> "", kind |-> "Empty"]
        ELSE IF Includes(normalizedValue, Dot) /\ Len(SplitPart1(normalizedValue)) > 1
        THEN [ok |-> FALSE, cls |-> "is-invalid", kind |-> "TooManyFractionDigits"]
        ELSE IF commaCount > 1 \/ dotCount > 1 \/ (commaCount > 0 /\ dotCount > 0)
        THEN [ok |-> FALSE, cls |-> "is-invalid", kind |-> "MultipleSeparators"]
        ELSE IF numValue.nan \/ LessThanOne(numValue) \/ GreaterThanTen(numValue)
        THEN [ok |-> FALSE, cls |-> "is-invalid", kind |-> "OutOfRange"]
        ELSE [ok |-> TRUE, cls |-> "is-valid", kind |-> "Valid"]

\* validateInput: the outcome, the class set on the field and the kind of failure
ValidateInput(value) ==
    LET commaCount == CountOf(value, Comma)
        dotCount == CountOf(value, Dot)
        \* value.replace(',', '.'): the first comma only
        normalizedValue == IF commaCount > 0 THEN ReplaceFirst(value, Comma, Dot) ELSE value
        numValue == ParseFloat(normalizedValue)
    IN  IF value = <<>>
        THEN [ok |-> FALSE, cls |-> "", kind |-> "Empty"]
        ELSE IF Includes(normalizedValue, Dot) /\ Len(SplitPart1(normalizedValue)) > 1
        THEN [ok |-> FALSE, cls |-> "is-invalid", kind |-> "TooManyFractionDigits"]   \* 'Maximal eine Nachkommastelle'
        ELSE IF commaCount > 1 \/ dotCount > 1 \/ (commaCount > 0 /\ dotCount > 0)
        THEN [ok |-> FALSE, cls |-> "is-invalid", kind |-> "MultipleSeparators"]      \* 'Nur ein Dezimaltrennzeichen erlaubt'
        ELSE IF numValue.nan \/ LessThanOne(numValue) \/ GreaterThanTen(numValue)
        THEN [ok |-> FALSE, cls |-> "is-invalid", kind |-> "OutOfRange"]              \* '1,0 - 10,0'
        ELSE [ok |-> TRUE, cls |-> "is-valid", kind |-> "Valid"]

(***************************************************************************)
(* getScores: null (ok = FALSE) at the first field that is empty or fails  *)
(* validateInput, else the parsed scores in field order.                   *)
(***************************************************************************)
FieldScore(value) == Tenths(ParseFloat(NormalizeGetScores(value)))

RECURSIVE GetScoresFrom(_, _)
GetScoresFrom(inputs, scores) ==
    IF inputs = <<>> THEN [ok |-> TRUE, scores |-> scores]
    ELSE IF Head(inputs) = <<>> THEN [ok |-> FALSE, scores |-> <<>>]
    ELSE IF ~ValidateInput(Head(inputs)).ok THEN [ok |-> FALSE, scores |-> <<>>]
    ELSE GetScoresFrom(Tail(inputs), Append(scores, FieldScore(Head(inputs))))

\* faulty variant: only empty fields are refused
GetScores_NoValidation(inputs) ==
    IF \E i \in 1..Len(inputs) : inputs[i] = <<>>
    THEN [ok |-> FALSE, scores |-> <<>>]
    ELSE [ok |-> TRUE, scores |-> [i \in 1..Len(inputs) |-> FieldScore(inputs[i])]]

GetScores(inputs) == GetScoresFrom(inputs, <<>>)

(***************************************************************************)
(* The aggregation of calculateScore's delayed callback.                   *)
(***************************************************************************)
\* what reading an array element past the end gives (undefined): no score has this value
Undefined == 0 - 1

\* array[index], 0-based
ElementAt(array, index) ==
    IF index >= 0 /\ index < Len(array) THEN array[index + 1] ELSE Undefined

RECURSIVE InsertSorted(_, _)
InsertSorted(sorted, x) ==
    IF sorted = <<>> THEN <<x>>
    ELSE IF x < Head(sorted) THEN <<x>> \o sorted
    ELSE <<Head(sorted)>> \o InsertSorted(Tail(sorted), x)

\* faulty variant: the scores stay in slot order
SortAscending_Unsorted(scores) == scores

\* [...scores].sort((a, b) => a - b)
RECURSIVE SortAscending(_)
SortAscending(scores) ==
    IF scores = <<>> THEN <<>>
    ELSE InsertSorted(SortAscending(SubSeq(scores, 1, Len(scores) - 1)), scores[Len(scores)])

\* faulty variant: slice(1)
SliceInner_DropMinOnly(sortedScores) == SubSeq(sortedScores, 2, Len(sortedScores))

\* sortedScores.slice(1, -1)
SliceInner(sortedScores) == SubSeq(sortedScores, 2, Len(sortedScores) - 1)

\* includedScores.reduce((sum, score) => sum + score, 0)
RECURSIVE ReduceSum(_, _)
ReduceSum(array, sum) ==
    IF array = <<>> THEN sum ELSE ReduceSum(Tail(array), sum + Head(array))

\* document.getElementById('participantName')?.value?.trim() || 'Unbekannt'
NameOrUnknown(name) == IF name = "" THEN "Unbekannt" ELSE name

\* faulty variant: the sum runs over all scores
TotalOf_SumAll(sortedScores, includedScores) == ReduceSum(sortedScores, 0)

\* includedScores.reduce((sum, score) => sum + score, 0)
TotalOf(sortedScores, includedScores) == ReduceSum(includedScores, 0)

\* the object assigned to this.currentResult
Aggregate(scores, name) ==
    LET sortedScores == SortAscending(scores)
        excludedScores == <<ElementAt(sortedScores, 0),
                            ElementAt(sortedScores, Len(sortedScores) - 1)>>
        includedScores == SliceInner(sortedScores)
        totalScore == TotalOf(sortedScores, includedScores)
    IN  [scores |-> scores,
         excludedScores |-> excludedScores,
         includedScores |-> includedScores,
         totalScore |-> totalScore,
         participantName |-> NameOrUnknown(name)]

\* score.toFixed(1) throws a TypeError on undefined
ToFixedThrows(array) == \E i \in 1..Len(array) : array[i] = Undefined

\* displayResult formats the excluded and the included scores
DisplayResultThrows(result) ==
    ToFixedThrows(result.excludedScores) \/ ToFixedThrows(result.includedScores)

\* displayHistory: the list view formats every entry's excluded and included scores,
\* the table view only the totals
DisplayHistoryThrows(entries, view) ==
    /\ view = "list"
    /\ \E k \in 1..Len(entries) :
          ToFixedThrows(entries[k].excludedScores) \/ ToFixedThrows(entries[k].includedScores)

(***************************************************************************)
(* The session.                                                            *)
(***************************************************************************)
minJudges == 3
maxJudges == 15

MaxPending == 1    \* calculateScore callbacks pending at once
MaxHistory == 1    \* entries committed to the ledger

T85c == <<"8", Comma, "5">>
T85d == <<"8", Dot, "5">>
T11 == <<"1", "1">>

\* texts typed into a judge field: empty, valid, out of range
FieldTexts == {<<>>, T85c, T11}

\* what an earlier session may have left under 'poetrySlamAutoSave'
InitialAutoSaves ==
    {<<>>, <<[participantName |-> "", judgeScores |-> <<T85d>>]>>}

\* no auto-save timer pending, no preference stored, the defaults of the constructor
\* and of the page, no cache
InitRest ==
    /\ inputTimeout = FALSE
    /\ autoSaveTimeout = FALSE
    /\ dataTheme = "light"
    /\ themeIcon = "moon"
    /\ storedTheme = ""
    /\ currentView = "list"
    /\ shownView = "list"
    /\ storedViewMode = ""
    /\ caches = <<>>
    \* the timer fields as the constructor leaves them
    /\ timerInterval = <<>>
    /\ liveIntervals = {}
    /\ timerStartTime = <<>>
    /\ timerDuration = 0
    /\ timerRemaining = 0
    /\ timerPaused = FALSE
    /\ timerPauseTime = 0
    \* the document of a first visit, loaded: the force-reload script has stored the
    \* version, no service worker is registered yet
    /\ deployedVersion = "v1"
    /\ pageState = "loaded"
    /\ pageVersion = "v1"
    /\ storedCacheVersion = "v1"
    /\ activeWorker = ""
    /\ waitingWorker = ""
    /\ skipWaitingFlag = FALSE
    /\ controller = ""
    /\ promptShown = FALSE
    /\ updateAccepted = FALSE
    /\ reloadTimer = FALSE

Init ==
    /\ InitRest
    /\ judgeInputs = <<>>
    /\ participantName = ""
    /\ currentJudgeCount = 5
    /\ rafQueue = <<[currentValues |-> <<>>]>>
    /\ calcTimers = <<>>
    /\ currentResult = <<>>
    /\ storedHistory = <<>>
    /\ history = storedHistory
    /\ storedAutoSave \in InitialAutoSaves
    /\ now = 0
    /\ toasts = <<>>
    /\ arg = <<>>
    /\ ret = [op |-> "none"]

\* restoreAutoSaveData on freshly generated inputs
RestoredInputs(inputs, snapshot) ==
    [i \in 1..Len(inputs) |->
        IF i <= Len(snapshot.judgeScores) /\ snapshot.judgeScores[i] # <<>>
        THEN snapshot.judgeScores[i] ELSE inputs[i]]

\* the requestAnimationFrame callback of generateJudgeInputs
Render ==
    /\ rafQueue # <<>>
    /\ LET currentValues == Head(rafQueue).currentValues
           generated == [i \in 1..currentJudgeCount |->
                            IF i <= Len(currentValues) THEN currentValues[i] ELSE <<>>]
       IN  IF storedAutoSave = <<>>
           THEN /\ judgeInputs' = generated
                /\ UNCHANGED <<participantName, storedAutoSave>>
           ELSE \E lessThanOneHourOld \in BOOLEAN :
                   IF lessThanOneHourOld
                   THEN /\ judgeInputs' = RestoredInputs(generated, storedAutoSave[1])
                        /\ participantName' =
                              IF storedAutoSave[1].participantName # ""
                              THEN storedAutoSave[1].participantName ELSE participantName
                        /\ UNCHANGED storedAutoSave
                   ELSE /\ judgeInputs' = generated
                        /\ storedAutoSave' = <<>>
                        /\ UNCHANGED participantName
    /\ rafQueue' = Tail(rafQueue)
    /\ toasts' = <<>>
    /\ UNCHANGED <<currentJudgeCount, calcTimers, currentResult, history, storedHistory,
                   now, timerVars, deployVars, inputTimeout, autoSaveTimeout, prefVars, caches, arg, ret>>

\* faulty variant: validateInput writes its comma-converted text back into the field
EditField_Normalizing(i, text) ==
    /\ i \in 1..Len(judgeInputs)
    /\ judgeInputs' = [judgeInputs EXCEPT ![i] = ReplaceFirst(text, Comma, Dot)]
    /\ inputTimeout' = TRUE
    /\ toasts' = <<>>
    /\ UNCHANGED <<participantName, currentJudgeCount, rafQueue, calcTimers, currentResult,
                   history, storedHistory, storedAutoSave, now, timerVars, deployVars, autoSaveTimeout, prefVars,
                   caches, arg, ret>>

\* an input event on a judge field: the user's new text, checked by validateInput (which
\* sets only the field's validity classes), and the 500 ms timer of the debounced
\* auto-save, set anew (clearTimeout, setTimeout)
EditField(i, text) ==
    /\ i \in 1..Len(judgeInputs)
    /\ judgeInputs' = [judgeInputs EXCEPT ![i] = text]
    /\ inputTimeout' = TRUE
    /\ toasts' = <<>>
    /\ UNCHANGED <<participantName, currentJudgeCount, rafQueue, calcTimers, currentResult,
                   history, storedHistory, storedAutoSave, now, timerVars, deployVars, autoSaveTimeout, prefVars,
                   caches, arg, ret>>

\* a blur event on a judge field: limitDecimalPlaces
Blur(i) ==
    /\ i \in 1..Len(judgeInputs)
    /\ judgeInputs' = [judgeInputs EXCEPT ![i] = LimitDecimalPlaces(judgeInputs[i])]
    /\ toasts' = <<>>
    /\ UNCHANGED <<participantName, currentJudgeCount, rafQueue, calcTimers, currentResult,
                   history, storedHistory, storedAutoSave, now, timerVars, deployVars, inputTimeout, autoSaveTimeout, prefVars, caches, arg, ret>>

\* calculateScore up to setTimeout
CalculateScore ==
    /\ UNCHANGED <<judgeInputs, participantName, currentJudgeCount, rafQueue, currentResult,
                   history, storedHistory, storedAutoSave, now, timerVars, deployVars, inputTimeout, autoSaveTimeout, prefVars, caches, arg, ret>>
    /\ LET scores == GetScores(judgeInputs)
       IN  IF ~scores.ok
           THEN /\ toasts' = <<"error">>
                /\ UNCHANGED calcTimers
           ELSE /\ Len(calcTimers) < MaxPending
                /\ calcTimers' = Append(calcTimers, scores.scores)
                /\ toasts' = <<>>

\* the callback calculateScore hands to setTimeout
CalcCallback ==
    /\ calcTimers # <<>>
    /\ LET result == Aggregate(Head(calcTimers), participantName)
       IN  /\ currentResult' = <<result>>
           /\ toasts' = IF DisplayResultThrows(result) THEN <<"error">> ELSE <<>>
    /\ calcTimers' = Tail(calcTimers)
    /\ UNCHANGED <<judgeInputs, participantName, currentJudgeCount, rafQueue, history,
                   storedHistory, storedAutoSave, now, timerVars, deployVars, inputTimeout, autoSaveTimeout, prefVars, caches, arg, ret>>

\* stopTimer, the fields it assigns: clearInterval takes the interval this.timerInterval
\* names from the browser; timerDuration and timerStartTime are left as they are
StopTimerFields ==
    /\ timerInterval' = <<>>
    /\ liveIntervals' = liveIntervals \ {timerInterval[k] : k \in 1..Len(timerInterval)}
    /\ timerRemaining' = 0
    /\ timerPaused' = FALSE
    /\ timerPauseTime' = 0
    /\ UNCHANGED <<timerStartTime, timerDuration>>

\* stopTimer, its notification: only if (wasRunning)
StopTimerToasts == IF timerInterval # <<>> THEN <<"info">> ELSE <<>>

\* the history entry saveAndReset builds from this.currentResult; the timer fields are
\* added if (this.timerDuration > 0)
HistoryEntry(result, time) ==
    LET historyEntry == [id |-> time,
                         timestamp |-> time,
                         participantName |-> NameOrUnknown(result.participantName),
                         totalScore |-> result.totalScore,
                         excludedScores |-> result.excludedScores,
                         includedScores |-> result.includedScores,
                         allScores |-> result.scores]
    IN  IF timerDuration > 0
        THEN historyEntry @@ [timerUsed |-> TRUE,
                              timerDuration |-> timerDuration,
                              timeRemaining |-> timerRemaining,
                              timeOverrun |-> timerRemaining <= 0]
        ELSE historyEntry

\* faulty variant: push
Unshift_Push(array, entry) == Append(array, entry)

\* this.history.unshift(historyEntry)
Unshift(array, entry) == <<entry>> \o array

\* saveHistory: what localStorage holds afterwards; setItem stores the list (written) or
\* throws, which saveHistory catches and hands to handleError
SavedHistory(list, written) == IF written THEN list ELSE storedHistory
SaveHistoryToasts(written) == IF written THEN <<>> ELSE <<"error">>

\* saveAndReset; the view is whatever toggleView left in this.currentView, room is the
\* length up to which the ledger is followed
SaveAndResetWith(written, room) ==
    IF currentResult = <<>>
    THEN /\ toasts' = <<"warning">>
         /\ UNCHANGED <<judgeInputs, participantName, currentJudgeCount, rafQueue,
                        calcTimers, currentResult, history, storedHistory, storedAutoSave,
                        now, timerVars, deployVars, inputTimeout, autoSaveTimeout, prefVars, caches, arg, ret>>
    ELSE /\ Len(history) < room
         /\ history' = Unshift(history, HistoryEntry(currentResult[1], now))
         /\ storedHistory' = SavedHistory(history', written)
         /\ \E view \in {"list", "table"} :
               IF DisplayHistoryThrows(history', view)
               THEN \* the TypeError leaves saveAndReset before resetForm
                    /\ toasts' = Append(SaveHistoryToasts(written), "error")
                    /\ UNCHANGED <<judgeInputs, participantName, currentResult,
                                   storedAutoSave, autoSaveTimeout, timerVars>>
               ELSE \* resetForm clears this.autoSaveTimeout; inputTimeout is a local
                    \* variable of setupInputListeners; stopTimer is the last statement
                    /\ judgeInputs' = [i \in 1..Len(judgeInputs) |-> <<>>]
                    /\ participantName' = ""
                    /\ autoSaveTimeout' = FALSE
                    /\ storedAutoSave' = <<>>
                    /\ currentResult' = <<>>
                    /\ StopTimerFields
                    /\ toasts' = SaveHistoryToasts(written) \o StopTimerToasts
         /\ UNCHANGED <<currentJudgeCount, rafQueue, calcTimers, now, deployVars, inputTimeout,
                        prefVars, caches, arg, ret>>

\* saveAndReset in the session: localStorage.setItem succeeds
SaveAndReset == SaveAndResetWith(TRUE, MaxHistory)

Next ==
    \/ Render
    \/ \E i \in 1..Len(judgeInputs), text \in FieldTexts : EditField(i, text)
    \/ \E i \in 1..Len(judgeInputs) : Blur(i)
    \/ CalculateScore
    \/ CalcCallback
    \/ SaveAndReset

Spec == Init /\ [][Next]_vars

(***************************************************************************)
(* One judge field on its own: the text it holds (arg), the preview        *)
(* validation of an input event, the rewrite of a blur event, and the      *)
(* separator normalization applied to the text.                            *)
(***************************************************************************)
T8c55 == <<"8", Comma, "5", "5">>
T8c5d2 == <<"8", Comma, "5", Dot, "2">>
T8c5c2d3 == <<"8", Comma, "5", Comma, "2", Dot, "3">>
T8d5d2c3 == <<"8", Dot, "5", Dot, "2", Comma, "3">>

\* the texts of the specification's scenarios and of the debugging script's two calls
ScenarioTexts == {T8c55, T8c5d2, T8c5c2d3, T8d5d2c3}

SessionQuiet ==
    /\ InitRest
    /\ judgeInputs = <<>>
    /\ participantName = ""
    /\ currentJudgeCount = 5
    /\ rafQueue = <<>>
    /\ calcTimers = <<>>
    /\ currentResult = <<>>
    /\ history = <<>>
    /\ storedHistory = <<>>
    /\ storedAutoSave = <<>>
    /\ now = 0
    /\ toasts = <<>>

InitText ==
    /\ SessionQuiet
    /\ arg \in Texts \cup ScenarioTexts
    /\ ret = [op |-> "none"]

\* an input event: validateInput on the field's text
FieldInput ==
    /\ ret' = [op |-> "validateInput", before |-> arg, outcome |-> ValidateInput(arg)]
    /\ UNCHANGED <<arg, appVars>>

\* a blur event: limitDecimalPlaces rewrites the field's text
FieldBlur ==
    /\ arg' = LimitDecimalPlaces(arg)
    /\ ret' = [op |-> "limitDecimalPlaces", before |-> arg]
    /\ UNCHANGED appVars

\* the separator normalization of each of its copies, applied to the field's text
FieldNormalize ==
    /\ ret' = [op |-> "normalize", before |-> arg,
               getScores |-> NormalizeGetScores(arg),
               getCurrentScores |-> NormalizeCurrentScores(arg),
               limitDecimalPlaces |-> NormalizeLimit(arg),
               debug |-> DebugMultipleSeparators(arg)]
    /\ UNCHANGED <<arg, appVars>>

NextText == FieldInput \/ FieldBlur \/ FieldNormalize

SpecText == InitText /\ [][NextText]_vars

(***************************************************************************)
(* The aggregation on its own: a panel of valid scores (tenths) in slot    *)
(* order and a second ordering of the same scores.                         *)
(***************************************************************************)
ScoreValues == {10, 70, 100}

Panels == UNION {[1..n -> ScoreValues] : n \in minJudges..MaxPanel}

\* scenario 1 of the specification: 9.2, 9.8, 9.5, 9.1, 8.9
Scenario1 == <<92, 98, 95, 91, 89>>
Scenario1Sorted == <<89, 91, 92, 95, 98>>

RECURSIVE BagOf(_)
BagOf(seq) == IF seq = <<>> THEN EmptyBag ELSE BagOf(Tail(seq)) (+) SetToBag({Head(seq)})

PanelPairs ==
    {pair \in [first : Panels, second : Panels] : BagOf(pair.first) = BagOf(pair.second)}
      \cup {[first |-> Scenario1, second |-> Scenario1Sorted],
            [first |-> Scenario1Sorted, second |-> Scenario1]}

InitAggregate ==
    /\ SessionQuiet
    /\ arg \in PanelPairs
    /\ ret = [op |-> "none"]

\* the setTimeout callback's computation on either ordering
AggregatePanels ==
    /\ ret.op = "none"
    /\ ret' = [op |-> "aggregate",
               first |-> Aggregate(arg.first, participantName),
               second |-> Aggregate(arg.second, participantName)]
    /\ UNCHANGED <<arg, appVars>>

NextAggregate == AggregatePanels

SpecAggregate == InitAggregate /\ [][NextAggregate]_vars

(***************************************************************************)
(* Resizing the panel: addJudge and removeJudge change currentJudgeCount   *)
(* and hand the fields' texts to generateJudgeInputs, whose animation      *)
(* frame callback rebuilds the fields.  The user types into the first      *)
(* slot.                                                                   *)
(***************************************************************************)
MaxRenders == 1    \* animation-frame callbacks pending at once

PanelTexts == {T85c, T11}

\* generateJudgeInputs up to requestAnimationFrame: the texts of the fields, by slot
CurrentValues == judgeInputs

\* addJudge
AddJudge ==
    IF currentJudgeCount < maxJudges
    THEN /\ Len(rafQueue) < MaxRenders
         /\ currentJudgeCount' = currentJudgeCount + 1
         /\ rafQueue' = Append(rafQueue, [currentValues |-> CurrentValues])
         /\ toasts' = <<>>
         /\ UNCHANGED <<judgeInputs, participantName, calcTimers, currentResult, history,
                        storedHistory, storedAutoSave, now, timerVars, deployVars, inputTimeout, autoSaveTimeout, prefVars, caches, arg, ret>>
    ELSE /\ toasts' = <<"warning">>
         /\ UNCHANGED <<judgeInputs, participantName, currentJudgeCount, rafQueue,
                        calcTimers, currentResult, history, storedHistory, storedAutoSave,
                        now, timerVars, deployVars, inputTimeout, autoSaveTimeout, prefVars, caches, arg, ret>>

\* removeJudge
RemoveJudge ==
    IF currentJudgeCount > minJudges
    THEN /\ Len(rafQueue) < MaxRenders
         /\ currentJudgeCount' = currentJudgeCount - 1
         /\ rafQueue' = Append(rafQueue, [currentValues |-> CurrentValues])
         /\ toasts' = <<>>
         /\ UNCHANGED <<judgeInputs, participantName, calcTimers, currentResult, history,
                        storedHistory, storedAutoSave, now, timerVars, deployVars, inputTimeout, autoSaveTimeout, prefVars, caches, arg, ret>>
    ELSE /\ toasts' = <<"warning">>
         /\ UNCHANGED <<judgeInputs, participantName, currentJudgeCount, rafQueue,
                        calcTimers, currentResult, history, storedHistory, storedAutoSave,
                        now, timerVars, deployVars, inputTimeout, autoSaveTimeout, prefVars, caches, arg, ret>>

\* the slot the user types into: the first one, which every panel keeps
TypedSlots == {i \in {1} : i <= Len(judgeInputs)}

NextPanel ==
    \/ Render
    \/ \E i \in TypedSlots, text \in PanelTexts : EditField(i, text)
    \/ \E i \in TypedSlots : Blur(i)
    \/ AddJudge
    \/ RemoveJudge
    \/ CalculateScore

SpecPanel == Init /\ [][NextPanel]_vars

(***************************************************************************)
(* The ledger: results are committed by saveAndReset, entries deleted by   *)
(* deleteHistoryEntry, the list emptied by clearHistory; each of them      *)
(* calls saveHistory, whose write to localStorage may throw.  Date.now()   *)
(* is a clock that never goes back.                                        *)
(***************************************************************************)
MaxLedger == 2     \* entries the ledger is followed up to
MaxClock == 1      \* how far Date.now() advances

LedgerTexts == {T85c}

\* this.history.filter(entry => entry.id !== id)
WithoutId(list, id) == SelectSeq(list, LAMBDA entry : entry.id # id)

\* deleteHistoryEntry(id)
DeleteHistoryEntry(id, written) ==
    /\ history' = WithoutId(history, id)
    /\ storedHistory' = SavedHistory(history', written)
    /\ \E view \in {"list", "table"} :
          toasts' = IF DisplayHistoryThrows(history', view)
                    THEN Append(SaveHistoryToasts(written), "error")
                    ELSE SaveHistoryToasts(written)
    /\ UNCHANGED <<judgeInputs, participantName, currentJudgeCount, rafQueue, calcTimers,
                   currentResult, storedAutoSave, now, timerVars, deployVars, inputTimeout, autoSaveTimeout, prefVars, caches, arg, ret>>

\* faulty variant: clearHistory does not ask
ClearHistory_NoConfirm(confirmed, written) ==
    /\ history' = <<>>
    /\ storedHistory' = SavedHistory(history', written)
    /\ toasts' = SaveHistoryToasts(written)
    /\ UNCHANGED <<judgeInputs, participantName, currentJudgeCount, rafQueue,
                   calcTimers, currentResult, storedAutoSave, now, timerVars, deployVars, inputTimeout, autoSaveTimeout, prefVars, caches, arg, ret>>

\* clearHistory; confirmed is the answer to confirm()
ClearHistory(confirmed, written) ==
    IF confirmed
    THEN /\ history' = <<>>
         /\ storedHistory' = SavedHistory(history', written)
         /\ toasts' = SaveHistoryToasts(written)
         /\ UNCHANGED <<judgeInputs, participantName, currentJudgeCount, rafQueue,
                        calcTimers, currentResult, storedAutoSave, now, timerVars, deployVars, inputTimeout, autoSaveTimeout, prefVars, caches, arg, ret>>
    ELSE UNCHANGED vars

\* time passes
Tick ==
    /\ now < MaxClock
    /\ now' = now + 1
    /\ UNCHANGED <<judgeInputs, participantName, currentJudgeCount, rafQueue, calcTimers,
                   currentResult, history, storedHistory, storedAutoSave, toasts, timerVars, deployVars,
                   inputTimeout, autoSaveTimeout, prefVars, caches, arg, ret>>

\* the fields are filled in from the first to the last: the slot typed into is the
\* first empty one
LedgerSlots ==
    {i \in 1..Len(judgeInputs) :
        /\ judgeInputs[i] = <<>>
        /\ \A j \in 1..(i - 1) : judgeInputs[j] # <<>>}

NextLedger ==
    \/ Render
    \/ \E i \in LedgerSlots, text \in LedgerTexts : EditField(i, text)
    \/ CalculateScore
    \/ CalcCallback
    \/ \E written \in BOOLEAN : SaveAndResetWith(written, MaxLedger)
    \/ \E id \in 0..MaxClock, written \in BOOLEAN : DeleteHistoryEntry(id, written)
    \/ \E confirmed \in BOOLEAN, written \in BOOLEAN : ClearHistory(confirmed, written)
    \/ Tick

SpecLedger == Init /\ [][NextLedger]_vars

(***************************************************************************)
(* The performance timer.  setInterval hands the browser an interval that  *)
(* calls updateTimer until clearInterval names it; liveIntervals holds the *)
(* ids of the intervals the browser still runs.  The clock of this part    *)
(* advances in steps of SecondsPerTick seconds.  arg keeps, for the round  *)
(* being scored, the ledger length at which the timer was last started and *)
(* at which it last ran to zero.                                           *)
(***************************************************************************)
MaxIntervals == 2      \* intervals followed at once
SecondsPerTick == 30   \* seconds between two readings of the clock

\* the value of #timerMinutes, in tenths of a minute
TimerInputs == {0, 5}

\* the id setInterval returns: one no interval has
FreshInterval ==
    CHOOSE id \in 1..(MaxIntervals + 1) :
        id \notin liveIntervals \cup {timerInterval[k] : k \in 1..Len(timerInterval)}

Max0(x) == IF x < 0 THEN 0 ELSE x

\* startTimer, from the button or the keys t and Ctrl+t; the keys are not disabled
\* while the timer runs.  The first updateTimer finds no time elapsed.
StartTimer(tenths) ==
    /\ IF tenths < 5 \/ tenths > 600
       THEN /\ toasts' = <<"warning">>
            /\ UNCHANGED <<timerVars, arg>>
       ELSE /\ Cardinality(liveIntervals) < MaxIntervals
            /\ timerDuration' = tenths * 6
            /\ timerRemaining' = Max0(tenths * 6)
            /\ timerStartTime' = <<now>>
            /\ timerPaused' = FALSE
            /\ timerPauseTime' = 0
            /\ timerInterval' = <<FreshInterval>>
            /\ liveIntervals' = liveIntervals \cup {FreshInterval}
            /\ toasts' = <<>>
            /\ arg' = [arg EXCEPT !.startedAt = Len(history)]
    /\ UNCHANGED <<judgeInputs, participantName, currentJudgeCount, rafQueue, calcTimers,
                   currentResult, history, storedHistory, storedAutoSave, now, deployVars,
                   inputTimeout, autoSaveTimeout, prefVars, caches, ret>>

\* pauseTimer: this.timerInterval keeps the id of the interval it cleared
PauseTimer ==
    /\ IF timerInterval # <<>> /\ ~timerPaused
       THEN /\ liveIntervals' = liveIntervals \ {timerInterval[1]}
            /\ timerPaused' = TRUE
            /\ timerPauseTime' = now
            /\ toasts' = <<"info">>
       ELSE /\ toasts' = <<>>
            /\ UNCHANGED <<liveIntervals, timerPaused, timerPauseTime>>
    /\ UNCHANGED <<timerInterval, timerStartTime, timerDuration, timerRemaining>>
    /\ UNCHANGED <<judgeInputs, participantName, currentJudgeCount, rafQueue, calcTimers,
                   currentResult, history, storedHistory, storedAutoSave, now, deployVars,
                   inputTimeout, autoSaveTimeout, prefVars, caches, arg, ret>>

\* resumeTimer
ResumeTimer ==
    /\ IF timerPaused
       THEN /\ Cardinality(liveIntervals) < MaxIntervals
            /\ timerStartTime' = <<timerStartTime[1] + (now - timerPauseTime)>>
            /\ timerPaused' = FALSE
            /\ timerPauseTime' = 0
            /\ timerInterval' = <<FreshInterval>>
            /\ liveIntervals' = liveIntervals \cup {FreshInterval}
            /\ toasts' = <<"info">>
       ELSE /\ toasts' = <<>>
            /\ UNCHANGED <<timerStartTime, timerPaused, timerPauseTime, timerInterval,
                           liveIntervals>>
    /\ UNCHANGED <<timerDuration, timerRemaining>>
    /\ UNCHANGED <<judgeInputs, participantName, currentJudgeCount, rafQueue, calcTimers,
                   currentResult, history, storedHistory, storedAutoSave, now, deployVars,
                   inputTimeout, autoSaveTimeout, prefVars, caches, arg, ret>>

\* stopTimer, from the button or the key s
StopTimer ==
    /\ StopTimerFields
    /\ toasts' = StopTimerToasts
    /\ UNCHANGED <<judgeInputs, participantName, currentJudgeCount, rafQueue, calcTimers,
                   currentResult, history, storedHistory, storedAutoSave, now, deployVars,
                   inputTimeout, autoSaveTimeout, prefVars, caches, arg, ret>>

\* updateTimer as the callback of the interval id; at zero it calls timerFinished,
\* which calls stopTimer and raises the warning
UpdateTimer(id) ==
    /\ id \in liveIntervals
    /\ IF timerStartTime = <<>> \/ timerPaused
       THEN /\ toasts' = <<>>
            /\ UNCHANGED <<timerVars, arg>>
       ELSE LET elapsed == (now - timerStartTime[1]) * SecondsPerTick
                remaining == Max0(timerDuration - elapsed)
            IN  IF remaining <= 0
                THEN /\ StopTimerFields
                     /\ toasts' = StopTimerToasts \o <<"warning">>
                     /\ arg' = [arg EXCEPT !.expiredAt = Len(history)]
                ELSE /\ timerRemaining' = remaining
                     /\ toasts' = <<>>
                     /\ UNCHANGED <<timerInterval, liveIntervals, timerStartTime,
                                    timerDuration, timerPaused, timerPauseTime, arg>>
    /\ UNCHANGED <<judgeInputs, participantName, currentJudgeCount, rafQueue, calcTimers,
                   currentResult, history, storedHistory, storedAutoSave, now, deployVars,
                   inputTimeout, autoSaveTimeout, prefVars, caches, ret>>

\* the form after its first animation frame
InitTimer ==
    /\ InitRest
    /\ judgeInputs = [i \in 1..5 |-> <<>>]
    /\ participantName = ""
    /\ currentJudgeCount = 5
    /\ rafQueue = <<>>
    /\ calcTimers = <<>>
    /\ currentResult = <<>>
    /\ storedHistory = <<>>
    /\ history = <<>>
    /\ storedAutoSave = <<>>
    /\ now = 0
    /\ toasts = <<>>
    /\ arg = [startedAt |-> Undefined, expiredAt |-> Undefined]
    /\ ret = [op |-> "none"]

NextTimer ==
    \/ \E tenths \in TimerInputs : StartTimer(tenths)
    \/ PauseTimer
    \/ ResumeTimer
    \/ StopTimer
    \/ \E id \in liveIntervals : UpdateTimer(id)
    \/ Tick
    \/ \E i \in LedgerSlots, text \in LedgerTexts : EditField(i, text)
    \/ CalculateScore
    \/ CalcCallback
    \/ SaveAndResetWith(TRUE, MaxLedger)

SpecTimer == InitTimer /\ [][NextTimer]_vars

(***************************************************************************)
(* The debounced auto-save: an input event on a judge field or on the      *)
(* participant name sets the 500 ms timer of the input listener, whose     *)
(* callback is triggerAutoSave; triggerAutoSave sets the timer             *)
(* (autoSaveDelay) whose callback is performAutoSave.  A timer that is     *)
(* pending fires at some later moment.                                     *)
(***************************************************************************)
ParticipantNames == {"Ada"}

\* getCurrentScores: the normalized text of every judge field that is not empty
GetCurrentScores(inputs) ==
    [i \in 1..Len(inputs) |->
        IF inputs[i] = <<>> THEN <<>> ELSE NormalizeCurrentScores(inputs[i])]

\* the autoSaveData of performAutoSave
AutoSaveData ==
    [participantName |-> participantName, judgeScores |-> GetCurrentScores(judgeInputs)]

\* an input event on #participantName
EditName(name) ==
    /\ participantName' = name
    /\ inputTimeout' = TRUE
    /\ toasts' = <<>>
    /\ UNCHANGED <<judgeInputs, currentJudgeCount, rafQueue, calcTimers, currentResult,
                   history, storedHistory, storedAutoSave, now, timerVars, deployVars, autoSaveTimeout, prefVars,
                   caches, arg, ret>>

\* an input event on another element of the page (#timerMinutes): the listener clears
\* its timer and sets none
OtherInput ==
    /\ inputTimeout' = FALSE
    /\ toasts' = <<>>
    /\ UNCHANGED <<judgeInputs, participantName, currentJudgeCount, rafQueue, calcTimers,
                   currentResult, history, storedHistory, storedAutoSave, now, timerVars, deployVars,
                   autoSaveTimeout, prefVars, caches, arg, ret>>

\* the callback of the input listener's timer: triggerAutoSave
TriggerAutoSave ==
    /\ inputTimeout
    /\ inputTimeout' = FALSE
    /\ autoSaveTimeout' = TRUE
    /\ UNCHANGED <<judgeInputs, participantName, currentJudgeCount, rafQueue, calcTimers,
                   currentResult, history, storedHistory, storedAutoSave, now, timerVars, deployVars, toasts,
                   prefVars, caches, arg, ret>>

\* the callback of triggerAutoSave's timer: performAutoSave; setItem stores the
\* snapshot (written) or throws, which performAutoSave catches and logs
PerformAutoSave(written) ==
    /\ autoSaveTimeout
    /\ autoSaveTimeout' = FALSE
    /\ storedAutoSave' = IF written THEN <<AutoSaveData>> ELSE storedAutoSave
    /\ UNCHANGED <<judgeInputs, participantName, currentJudgeCount, rafQueue, calcTimers,
                   currentResult, history, storedHistory, now, timerVars, deployVars, toasts, inputTimeout,
                   prefVars, caches, arg, ret>>

\* nothing is stored under 'poetrySlamAutoSave' when the page is opened
InitAutoSave == Init /\ storedAutoSave = <<>>

NextAutoSave ==
    \/ Render
    \/ \E i \in LedgerSlots, text \in LedgerTexts : EditField(i, text)
    \/ \E name \in ParticipantNames : EditName(name)
    \/ OtherInput
    \/ TriggerAutoSave
    \/ PerformAutoSave(TRUE)
    \/ CalculateScore
    \/ CalcCallback
    \/ SaveAndReset

SpecAutoSave == InitAutoSave /\ [][NextAutoSave]_vars

\* a pending timer fires
SpecAutoSaveFair ==
    SpecAutoSave /\ WF_vars(TriggerAutoSave) /\ WF_vars(PerformAutoSave(TRUE))

(***************************************************************************)
(* The stored preferences: setTheme and toggleView write the keys 'theme'  *)
(* and 'viewMode' with localStorage.setItem outside any try block; an      *)
(* exception that leaves them reaches the keyboard listener's catch or the *)
(* window's error listener, both of which call handleError.                *)
(***************************************************************************)
\* themeIcon.textContent: the sun in the dark theme, the moon otherwise
ThemeIconOf(theme) == IF theme = "dark" THEN "sun" ELSE "moon"

\* setTheme(theme)
SetTheme(theme, written) ==
    /\ dataTheme' = theme
    /\ IF written
       THEN /\ storedTheme' = theme
            /\ themeIcon' = ThemeIconOf(theme)
            /\ toasts' = <<>>
       ELSE \* setItem throws: the exception leaves setTheme
            /\ toasts' = <<"error">>
            /\ UNCHANGED <<storedTheme, themeIcon>>
    /\ UNCHANGED <<judgeInputs, participantName, currentJudgeCount, rafQueue, calcTimers,
                   currentResult, history, storedHistory, storedAutoSave, now, timerVars, deployVars, inputTimeout,
                   autoSaveTimeout, currentView, shownView, storedViewMode, caches, arg, ret>>

\* toggleTheme
ToggleTheme(written) == SetTheme(IF dataTheme = "dark" THEN "light" ELSE "dark", written)

\* the system's colour scheme changes: followed only while no theme is stored
SystemThemeChange(dark, written) ==
    IF storedTheme = ""
    THEN SetTheme(IF dark THEN "dark" ELSE "light", written)
    ELSE UNCHANGED vars

\* toggleView
ToggleView(written) ==
    /\ currentView' = IF currentView = "list" THEN "table" ELSE "list"
    /\ IF written
       THEN /\ storedViewMode' = currentView'
            /\ shownView' = currentView'
            /\ toasts' = IF DisplayHistoryThrows(history, currentView')
                         THEN <<"error">> ELSE <<>>
       ELSE \* setItem throws: the exception leaves toggleView before updateView
            /\ toasts' = <<"error">>
            /\ UNCHANGED <<storedViewMode, shownView>>
    /\ UNCHANGED <<judgeInputs, participantName, currentJudgeCount, rafQueue, calcTimers,
                   currentResult, history, storedHistory, storedAutoSave, now, timerVars, deployVars, inputTimeout,
                   autoSaveTimeout, dataTheme, themeIcon, storedTheme, caches, arg, ret>>

NextStorage ==
    \/ Render
    \/ \E i \in LedgerSlots, text \in LedgerTexts : EditField(i, text)
    \/ TriggerAutoSave
    \/ \E written \in BOOLEAN : PerformAutoSave(written)
    \/ CalculateScore
    \/ CalcCallback
    \/ \E written \in BOOLEAN : SaveAndResetWith(written, MaxHistory)
    \/ \E written \in BOOLEAN : ToggleTheme(written)
    \/ \E dark \in BOOLEAN, written \in BOOLEAN : SystemThemeChange(dark, written)
    \/ \E written \in BOOLEAN : ToggleView(written)

SpecStorage == InitAutoSave /\ [][NextStorage]_vars

(***************************************************************************)
(* The two exports of the ledger.  The content handed to downloadFile is   *)
(* kept in ret; a text is a sequence of characters, the names of the       *)
(* header's columns being written as one element each.                     *)
(***************************************************************************)
MaxExport == 2     \* entries of the ledgers that are exported

Semicolon == ";"
Newline == "\n"

DigitChars == <<"0", "1", "2", "3", "4", "5", "6", "7", "8", "9">>

\* the decimal digits of a natural number
RECURSIVE NatChars(_)
NatChars(n) ==
    IF n < 10 THEN <<DigitChars[n + 1]>>
    ELSE NatChars(n \div 10) \o <<DigitChars[(n % 10) + 1]>>

\* number.toFixed(1), the number given in tenths
ToFixed1(tenths) == NatChars(tenths \div 10) \o <<Dot>> \o <<DigitChars[(tenths % 10) + 1]>>

\* faulty variant: the period is left in place
FormatScore_Period(tenths) == ToFixed1(tenths)

\* s.toFixed(1).replace('.', ',')
FormatScore(tenths) == ReplaceFirst(ToFixed1(tenths), Dot, Comma)

\* array.join(separator) on texts
RECURSIVE Join(_, _)
Join(texts, separator) ==
    IF texts = <<>> THEN <<>>
    ELSE IF Len(texts) = 1 THEN texts[1]
    ELSE texts[1] \o separator \o Join(Tail(texts), separator)

\* the characters of a participant name
NameChars(name) ==
    IF name = "Unbekannt" THEN <<"U", "n", "b", "e", "k", "a", "n", "n", "t">>
    ELSE IF name = "Ada" THEN <<"A", "d", "a">>
    ELSE IF name = "A;B" THEN <<"A", Semicolon, "B">>
    ELSE <<>>

\* new Date().toLocaleString('de-DE') at the moment of the commit: day.month.year,
\* hours:minutes:seconds
LocaleString(time) ==
    <<"1", ".", "1", ".", "1", "9", "7", "0", ",", " ", "0", "0", ":", "0", "0", ":">>
        \o NatChars(time)

\* array.map(s => s.toFixed(1).replace('.', ',')).join(', ')
FormatScores(array) ==
    Join([k \in 1..Len(array) |-> FormatScore(array[k])], <<Comma, " ">>)

CsvHeaders ==
    <<<<"Datum">>, <<"Name">>, <<"Gesamtpunktzahl">>, <<"Gestrichene Punkte">>,
      <<"Gewertete Punkte">>, <<"Alle Punkte">>>>

\* the row exportCSV makes of an entry
CsvRow(entry) ==
    Join(<<LocaleString(entry.timestamp),
           NameChars(entry.participantName),
           FormatScore(entry.totalScore),
           FormatScores(entry.excludedScores),
           FormatScores(entry.includedScores),
           FormatScores(entry.allScores)>>, <<Semicolon>>)

\* toFixed is called on undefined somewhere in the entry
CsvRowThrows(entry) ==
    \/ ToFixedThrows(entry.excludedScores)
    \/ ToFixedThrows(entry.includedScores)
    \/ ToFixedThrows(entry.allScores)

\* exportCSV
ExportCSV ==
    /\ IF history = <<>>
       THEN ret' = [op |-> "exportCSV", file |-> <<>>] /\ toasts' = <<"warning">>
       ELSE IF \E k \in 1..Len(history) : CsvRowThrows(history[k])
       THEN ret' = [op |-> "exportCSV", file |-> <<>>] /\ toasts' = <<"error">>
       ELSE /\ ret' = [op |-> "exportCSV",
                       file |-> <<Join(<<Join(CsvHeaders, <<Semicolon>>)>>
                                        \o [k \in 1..Len(history) |-> CsvRow(history[k])],
                                      <<Newline>>)>>]
            /\ toasts' = <<>>
    /\ UNCHANGED <<judgeInputs, participantName, currentJudgeCount, rafQueue, calcTimers,
                   currentResult, history, storedHistory, storedAutoSave, now, timerVars, deployVars, inputTimeout,
                   autoSaveTimeout, prefVars, caches, arg>>

\* JSON.stringify of a number or of an array element that is undefined
JsonNumber(x) == IF x = Undefined THEN [null |-> TRUE] ELSE [number |-> x]

\* JSON.stringify of an entry
JsonEntry(entry) ==
    [id |-> JsonNumber(entry.id),
     timestamp |-> [string |-> LocaleString(entry.timestamp)],
     participantName |-> [string |-> NameChars(entry.participantName)],
     totalScore |-> JsonNumber(entry.totalScore),
     excludedScores |-> [k \in 1..Len(entry.excludedScores) |->
                            JsonNumber(entry.excludedScores[k])],
     includedScores |-> [k \in 1..Len(entry.includedScores) |->
                            JsonNumber(entry.includedScores[k])],
     allScores |-> [k \in 1..Len(entry.allScores) |-> JsonNumber(entry.allScores[k])]]

\* exportJSON
ExportJSON ==
    /\ IF history = <<>>
       THEN ret' = [op |-> "exportJSON", file |-> <<>>] /\ toasts' = <<"warning">>
       ELSE /\ ret' = [op |-> "exportJSON",
                       file |-> <<[exportDate |-> [string |-> NatChars(now)],
                                   totalEntries |-> JsonNumber(Len(history)),
                                   data |-> [k \in 1..Len(history) |->
                                                JsonEntry(history[k])]]>>]
            /\ toasts' = <<>>
    /\ UNCHANGED <<judgeInputs, participantName, currentJudgeCount, rafQueue, calcTimers,
                   currentResult, history, storedHistory, storedAutoSave, now, timerVars, deployVars, inputTimeout,
                   autoSaveTimeout, prefVars, caches, arg>>

\* the panels behind the exported entries: scenario 1, three judges, and the panel
\* without slots that calculateScore aggregates before the first render
ExportPanels == {Scenario1, <<10, 70, 100>>, <<>>}
ExportNames == {"", "A;B"}

ExportEntries ==
    {HistoryEntry(Aggregate(panel, name), 0) : panel \in ExportPanels, name \in ExportNames}

ExportLedgers == UNION {[1..n -> ExportEntries] : n \in 0..MaxExport}

InitExport ==
    /\ InitRest
    /\ judgeInputs = <<>>
    /\ participantName = ""
    /\ currentJudgeCount = 5
    /\ rafQueue = <<>>
    /\ calcTimers = <<>>
    /\ currentResult = <<>>
    /\ history \in ExportLedgers
    /\ storedHistory = history
    /\ storedAutoSave = <<>>
    /\ now = 0
    /\ toasts = <<>>
    /\ arg = <<>>
    /\ ret = [op |-> "none"]

NextExport == ExportCSV \/ ExportJSON

SpecExport == InitExport /\ [][NextExport]_vars

(***************************************************************************)
(* The production service worker (GoldStandardServiceWorker).  A cache of  *)
(* CacheStorage is the set of the URLs it holds a response for.            *)
(***************************************************************************)
CACHE_NAME == "poetry-slam-calculator-hash"
CriticalCache == "poetry-slam-calculator-hash-critical"
StaticCache == "poetry-slam-calculator-hash-static"
ImagesCache == "poetry-slam-calculator-hash-images"

\* CACHE_NAME in the script of the next deployment: the hash differs
NextCacheName == "poetry-slam-calculator-next"

\* cacheName.startsWith('poetry-slam-calculator-')
StartsWithPrefix(cacheName) ==
    cacheName \in {CACHE_NAME, CriticalCache, StaticCache, ImagesCache, NextCacheName}

\* the criticalResources of handleInstall
CriticalResources == {"/", "/index.html", "/manifest.webmanifest", "/version.json"}

Requests ==
    [url : CriticalResources \cup {"/app.js", "/icon.png"}, method : {"GET", "POST"}]

\* getCacheStrategy(url.pathname): the pattern of the API strategy, an absolute URL,
\* matches no pathname; what matches no pattern gets the strategy of the critical files
CacheStrategy(pathname) ==
    IF pathname \in {"/index.html", "/manifest.webmanifest", "/version.json"}
    THEN [strategy |-> "NetworkFirst", cacheName |-> CriticalCache]
    ELSE IF pathname = "/app.js"
    THEN [strategy |-> "CacheFirst", cacheName |-> StaticCache]
    ELSE IF pathname = "/icon.png"
    THEN [strategy |-> "CacheFirst", cacheName |-> ImagesCache]
    ELSE [strategy |-> "NetworkFirst", cacheName |-> CriticalCache]

\* caches.open(cacheName): the cache is created when it does not exist
Opened(storage, cacheName) ==
    IF cacheName \in DOMAIN storage THEN storage
    ELSE [name \in DOMAIN storage \cup {cacheName} |->
             IF name = cacheName THEN {} ELSE storage[name]]

\* cache.put and cache.addAll on an opened cache
WithEntries(storage, cacheName, urls) ==
    [Opened(storage, cacheName) EXCEPT ![cacheName] = @ \cup urls]

\* caches.match(request): some cache holds the request
Matches(storage, url) == \E name \in DOMAIN storage : url \in storage[name]

\* cleanupOldCaches of the worker whose this.cacheName is cacheName: every cache with
\* the prefix except this.cacheName is deleted
CleanedUpBy(storage, cacheName) ==
    [name \in {n \in DOMAIN storage : ~(StartsWithPrefix(n) /\ n # cacheName)} |->
        storage[name]]

\* cleanupOldCaches of the worker of the version under study
CleanedUp(storage) == CleanedUpBy(storage, CACHE_NAME)

\* the install event: handleInstall; addAll stores all four responses or none
HandleInstall(fetched) ==
    /\ caches' = IF fetched THEN WithEntries(caches, CACHE_NAME, CriticalResources)
                 ELSE Opened(caches, CACHE_NAME)
    /\ ret' = [op |-> "handleInstall"]
    /\ UNCHANGED <<arg, judgeInputs, participantName, currentJudgeCount, rafQueue, calcTimers,
                   currentResult, history, storedHistory, storedAutoSave, now, timerVars, deployVars, toasts,
                   inputTimeout, autoSaveTimeout, prefVars>>

\* the activate event: handleActivate
HandleActivate ==
    /\ caches' = CleanedUp(caches)
    /\ ret' = [op |-> "handleActivate"]
    /\ UNCHANGED <<arg, judgeInputs, participantName, currentJudgeCount, rafQueue, calcTimers,
                   currentResult, history, storedHistory, storedAutoSave, now, timerVars, deployVars, toasts,
                   inputTimeout, autoSaveTimeout, prefVars>>

\* the fetch event: handleFetch; network is what fetch(request) does: a response that
\* is ok, a response that is not, or a rejection
HandleFetch(request, network) ==
    /\ LET strategy == CacheStrategy(request.url)
           opened == Opened(caches, strategy.cacheName)
       IN  IF request.method # "GET"
           THEN /\ caches' = caches
                /\ ret' = [op |-> "handleFetch", response |-> network]
           ELSE IF strategy.strategy = "NetworkFirst"
           THEN IF network = "ok"
                THEN /\ caches' = WithEntries(caches, strategy.cacheName, {request.url})
                     /\ ret' = [op |-> "handleFetch", response |-> "ok"]
                ELSE /\ caches' = opened
                     /\ ret' = [op |-> "handleFetch",
                                response |-> IF Matches(caches, request.url)
                                             THEN "cached" ELSE "offline"]
           ELSE IF request.url \in opened[strategy.cacheName]
                THEN /\ caches' = opened
                     /\ ret' = [op |-> "handleFetch", response |-> "cached"]
                ELSE IF network = "ok"
                THEN /\ caches' = WithEntries(caches, strategy.cacheName, {request.url})
                     /\ ret' = [op |-> "handleFetch", response |-> "ok"]
                ELSE /\ caches' = opened
                     /\ ret' = [op |-> "handleFetch",
                                response |-> IF network = "notOk" THEN "notOk"
                                             ELSE IF Matches(caches, request.url)
                                             THEN "cached" ELSE "offline"]
    /\ UNCHANGED <<arg, judgeInputs, participantName, currentJudgeCount, rafQueue, calcTimers,
                   currentResult, history, storedHistory, storedAutoSave, now, timerVars, deployVars, toasts,
                   inputTimeout, autoSaveTimeout, prefVars>>

\* a start of the worker: the script's last statement, sw.init(), runs cleanupOldCaches
\* each time the browser starts the worker
WorkerInit ==
    /\ caches' = CleanedUp(caches)
    /\ ret' = [op |-> "init"]
    /\ UNCHANGED <<arg, judgeInputs, participantName, currentJudgeCount, rafQueue, calcTimers,
                   currentResult, history, storedHistory, storedAutoSave, now, timerVars, deployVars, toasts,
                   inputTimeout, autoSaveTimeout, prefVars>>

\* the message CLEAR_CACHE: clearAllCaches
ClearAllCaches ==
    /\ caches' = <<>>
    /\ ret' = [op |-> "clearAllCaches"]
    /\ UNCHANGED <<arg, judgeInputs, participantName, currentJudgeCount, rafQueue, calcTimers,
                   currentResult, history, storedHistory, storedAutoSave, now, timerVars, deployVars, toasts,
                   inputTimeout, autoSaveTimeout, prefVars>>

InitServiceWorker ==
    /\ SessionQuiet
    /\ arg = <<>>
    /\ ret = [op |-> "none"]

NextServiceWorker ==
    \/ \E fetched \in BOOLEAN : HandleInstall(fetched)
    \/ HandleActivate
    \/ WorkerInit
    \/ \E request \in Requests, network \in {"ok", "notOk", "fails"} :
          HandleFetch(request, network)
    \/ ClearAllCaches

SpecServiceWorker == InitServiceWorker /\ [][NextServiceWorker]_vars

(***************************************************************************)
(* Deployment of a new version: the document with the force-reload script, *)
(* the update manager of the page (PWAUpdateManager) and the life cycle    *)
(* the browser gives the workers of the registration.  Versions are the    *)
(* deployments; "" stands for no worker, no controller, no stored version. *)
(***************************************************************************)
\* this.cacheName of the worker of a version
VersionCache(version) == IF version = "v1" THEN CACHE_NAME ELSE NextCacheName

\* a deployment replaces what the server serves
Deploy ==
    /\ deployedVersion = "v1"
    /\ deployedVersion' = "v2"
    /\ UNCHANGED <<pageState, pageVersion, storedCacheVersion, activeWorker, waitingWorker,
                   skipWaitingFlag, controller, promptShown, updateAccepted, reloadTimer>>
    /\ UNCHANGED <<judgeInputs, participantName, currentJudgeCount, rafQueue, calcTimers,
                   currentResult, history, storedHistory, storedAutoSave, now, timerVars,
                   inputTimeout, autoSaveTimeout, prefVars, caches, toasts, arg, ret>>

\* the user opens or reloads the page
Navigate ==
    /\ pageState = "loaded"
    /\ pageState' = "loading"
    /\ UNCHANGED <<deployedVersion, pageVersion, storedCacheVersion, activeWorker,
                   waitingWorker, skipWaitingFlag, controller, promptShown, updateAccepted,
                   reloadTimer>>
    /\ UNCHANGED <<judgeInputs, participantName, currentJudgeCount, rafQueue, calcTimers,
                   currentResult, history, storedHistory, storedAutoSave, now, timerVars,
                   inputTimeout, autoSaveTimeout, prefVars, caches, toasts, arg, ret>>

\* the navigation completes: the document served, controlled by the active worker;
\* what the document before it had scheduled or shown is gone
PageLoad ==
    /\ pageState = "loading"
    /\ pageState' = "script"
    /\ pageVersion' = deployedVersion
    /\ controller' = activeWorker
    /\ promptShown' = FALSE
    /\ updateAccepted' = FALSE
    /\ reloadTimer' = FALSE
    /\ UNCHANGED <<deployedVersion, storedCacheVersion, activeWorker, waitingWorker,
                   skipWaitingFlag>>
    /\ UNCHANGED <<judgeInputs, participantName, currentJudgeCount, rafQueue, calcTimers,
                   currentResult, history, storedHistory, storedAutoSave, now, timerVars,
                   inputTimeout, autoSaveTimeout, prefVars, caches, toasts, arg, ret>>

\* the force-reload script of the document, up to the first promise
ForceReload ==
    /\ pageState = "script"
    /\ IF storedCacheVersion # "" /\ storedCacheVersion # pageVersion
       THEN /\ pageState' = "clearing"
            /\ UNCHANGED storedCacheVersion
       ELSE /\ storedCacheVersion' = pageVersion
            /\ pageState' = "loaded"
    /\ UNCHANGED <<deployedVersion, pageVersion, activeWorker, waitingWorker,
                   skipWaitingFlag, controller, promptShown, updateAccepted, reloadTimer>>
    /\ UNCHANGED <<judgeInputs, participantName, currentJudgeCount, rafQueue, calcTimers,
                   currentResult, history, storedHistory, storedAutoSave, now, timerVars,
                   inputTimeout, autoSaveTimeout, prefVars, caches, toasts, arg, ret>>

\* the force-reload script, the promise of caches.keys(): every cache is deleted, then
\* window.location.reload(true)
ClearCachesAndReload ==
    /\ pageState = "clearing"
    /\ caches' = <<>>
    /\ pageState' = "loading"
    /\ UNCHANGED <<deployedVersion, pageVersion, storedCacheVersion, activeWorker,
                   waitingWorker, skipWaitingFlag, controller, promptShown, updateAccepted,
                   reloadTimer>>
    /\ UNCHANGED <<judgeInputs, participantName, currentJudgeCount, rafQueue, calcTimers,
                   currentResult, history, storedHistory, storedAutoSave, now, timerVars,
                   inputTimeout, autoSaveTimeout, prefVars, toasts, arg, ret>>

\* registration.register or registration.update() finds a script no worker of the
\* registration runs: the script is evaluated, whose last statement sw.init() calls
\* self.skipWaiting() and cleanupOldCaches, and the install event follows; the worker
\* is installed if addAll stored the critical resources (fetched)
UpdateFound(fetched) ==
    /\ pageState = "loaded"
    /\ deployedVersion \notin {activeWorker, waitingWorker}
    /\ LET cacheName == VersionCache(deployedVersion)
           cleaned == CleanedUpBy(caches, cacheName)
       IN  IF fetched
           THEN /\ caches' = WithEntries(cleaned, cacheName, CriticalResources)
                /\ waitingWorker' = deployedVersion
                /\ skipWaitingFlag' = TRUE
           ELSE /\ caches' = Opened(cleaned, cacheName)
                /\ UNCHANGED <<waitingWorker, skipWaitingFlag>>
    /\ UNCHANGED <<deployedVersion, pageState, pageVersion, storedCacheVersion, activeWorker,
                   controller, promptShown, updateAccepted, reloadTimer>>
    /\ UNCHANGED <<judgeInputs, participantName, currentJudgeCount, rafQueue, calcTimers,
                   currentResult, history, storedHistory, storedAutoSave, now, timerVars,
                   inputTimeout, autoSaveTimeout, prefVars, toasts, arg, ret>>

\* the browser activates the installed worker: when it has called skipWaiting, or when
\* no page is controlled by the active one.  The pages the registration controls get
\* the new worker as their controller, and controllerchange runs handleControllerChange
\* of a page whose update manager listens; handleActivate runs cleanupOldCaches.
WorkerActivate ==
    /\ waitingWorker # ""
    /\ skipWaitingFlag \/ controller = ""
    /\ activeWorker' = waitingWorker
    /\ waitingWorker' = ""
    /\ skipWaitingFlag' = FALSE
    /\ caches' = CleanedUpBy(caches, VersionCache(waitingWorker))
    /\ IF controller # ""
       THEN /\ controller' = waitingWorker
            /\ IF pageState = "loaded"
               THEN /\ promptShown' = FALSE
                    /\ reloadTimer' = TRUE
               ELSE UNCHANGED <<promptShown, reloadTimer>>
       ELSE UNCHANGED <<controller, promptShown, reloadTimer>>
    /\ UNCHANGED <<deployedVersion, pageState, pageVersion, storedCacheVersion,
                   updateAccepted>>
    /\ UNCHANGED <<judgeInputs, participantName, currentJudgeCount, rafQueue, calcTimers,
                   currentResult, history, storedHistory, storedAutoSave, now, timerVars,
                   inputTimeout, autoSaveTimeout, prefVars, toasts, arg, ret>>

\* checkForUpdates finds registration.waiting: handleUpdateAvailable shows the prompt
HandleUpdateAvailable ==
    /\ pageState = "loaded"
    /\ waitingWorker # ""
    /\ promptShown' = TRUE
    /\ UNCHANGED <<deployedVersion, pageState, pageVersion, storedCacheVersion, activeWorker,
                   waitingWorker, skipWaitingFlag, controller, updateAccepted, reloadTimer>>
    /\ UNCHANGED <<judgeInputs, participantName, currentJudgeCount, rafQueue, calcTimers,
                   currentResult, history, storedHistory, storedAutoSave, now, timerVars,
                   inputTimeout, autoSaveTimeout, prefVars, caches, toasts, arg, ret>>

\* applyUpdate, the button of the prompt: SKIP_WAITING is posted to the waiting worker,
\* whose handleMessage calls self.skipWaiting()
ApplyUpdate ==
    /\ pageState = "loaded"
    /\ promptShown
    /\ IF waitingWorker = ""
       THEN UNCHANGED <<updateAccepted, skipWaitingFlag>>
       ELSE /\ updateAccepted' = TRUE
            /\ skipWaitingFlag' = TRUE
    /\ UNCHANGED <<deployedVersion, pageState, pageVersion, storedCacheVersion, activeWorker,
                   waitingWorker, controller, promptShown, reloadTimer>>
    /\ UNCHANGED <<judgeInputs, participantName, currentJudgeCount, rafQueue, calcTimers,
                   currentResult, history, storedHistory, storedAutoSave, now, timerVars,
                   inputTimeout, autoSaveTimeout, prefVars, caches, toasts, arg, ret>>

\* dismissUpdate, the other button of the prompt or its 30 s timer
DismissUpdate ==
    /\ promptShown
    /\ promptShown' = FALSE
    /\ UNCHANGED <<deployedVersion, pageState, pageVersion, storedCacheVersion, activeWorker,
                   waitingWorker, skipWaitingFlag, controller, updateAccepted, reloadTimer>>
    /\ UNCHANGED <<judgeInputs, participantName, currentJudgeCount, rafQueue, calcTimers,
                   currentResult, history, storedHistory, storedAutoSave, now, timerVars,
                   inputTimeout, autoSaveTimeout, prefVars, caches, toasts, arg, ret>>

\* window.location.reload() of handleControllerChange's timer, or of applyUpdate once
\* its controllerchange promise has resolved
ReloadPage ==
    /\ reloadTimer
    /\ reloadTimer' = FALSE
    /\ pageState' = "loading"
    /\ UNCHANGED <<deployedVersion, pageVersion, storedCacheVersion, activeWorker,
                   waitingWorker, skipWaitingFlag, controller, promptShown, updateAccepted>>
    /\ UNCHANGED <<judgeInputs, participantName, currentJudgeCount, rafQueue, calcTimers,
                   currentResult, history, storedHistory, storedAutoSave, now, timerVars,
                   inputTimeout, autoSaveTimeout, prefVars, caches, toasts, arg, ret>>

InitDeploy ==
    /\ SessionQuiet
    /\ arg = <<>>
    /\ ret = [op |-> "none"]

NextDeploy ==
    \/ Deploy
    \/ Navigate
    \/ PageLoad
    \/ ForceReload
    \/ ClearCachesAndReload
    \/ \E fetched \in BOOLEAN : UpdateFound(fetched)
    \/ WorkerActivate
    \/ HandleUpdateAvailable
    \/ ApplyUpdate
    \/ DismissUpdate
    \/ ReloadPage

SpecDeploy == InitDeploy /\ [][NextDeploy]_vars

\* the browser completes a navigation, runs the scripts of the document and settles
\* its promises
SpecDeployFair ==
    /\ SpecDeploy
    /\ WF_vars(PageLoad)
    /\ WF_vars(ForceReload)
    /\ WF_vars(ClearCachesAndReload)
    /\ WF_vars(ReloadPage)

(***************************************************************************)
(* Properties.                                                             *)
(***************************************************************************)
RECURSIVE SumSeq(_)
SumSeq(seq) == IF seq = <<>> THEN 0 ELSE SumSeq(SubSeq(seq, 1, Len(seq) - 1)) + seq[Len(seq)]

IsLeast(x, seq) == (\E i \in 1..Len(seq) : seq[i] = x) /\ (\A i \in 1..Len(seq) : x <= seq[i])
IsGreatest(x, seq) == (\E i \in 1..Len(seq) : seq[i] = x) /\ (\A i \in 1..Len(seq) : x >= seq[i])
IsAscending(seq) == \A i \in 1..(Len(seq) - 1) : seq[i] <= seq[i + 1]

\* C1: for a complete panel of N valid scores, 3 <= N, the result excludes exactly two
\* scores, the least and the greatest of the panel (one instance each, also under ties),
\* and includes the other N - 2 in ascending order: excluded plus included is the panel
\* as a multiset.
C1_ExcludesOneMinOneMax ==
    ret.op = "aggregate" =>
        LET all == arg.first
            result == ret.first
        IN  /\ Len(result.excludedScores) = 2
            /\ IsLeast(result.excludedScores[1], all)
            /\ IsGreatest(result.excludedScores[2], all)
            /\ Len(result.includedScores) = Len(all) - 2
            /\ IsAscending(result.includedScores)
            /\ BagOf(all) = BagOf(result.excludedScores) (+) BagOf(result.includedScores)

\* three equal scores: one copy is excluded as minimum, another as maximum, one is included
C1_Witness ==
    /\ ret.op = "aggregate"
    /\ arg.first = <<70, 70, 70>>
    /\ ret.first.excludedScores = <<70, 70>>
    /\ ret.first.includedScores = <<70>>

\* C2: the total of every result calculateScore produces is the sum of its included
\* scores, and the history entry saveAndReset creates from a result carries that
\* result's total and included scores.
C2_Step ==
    /\ currentResult' # <<>> =>
          currentResult'[1].totalScore = SumSeq(currentResult'[1].includedScores)
    /\ Len(history') > Len(history) =>
          /\ currentResult # <<>>
          /\ history'[1].totalScore = currentResult[1].totalScore
          /\ history'[1].includedScores = currentResult[1].includedScores
          /\ history'[1].totalScore = SumSeq(history'[1].includedScores)

C3_IdenticalInEveryField ==
    ret.op = "aggregate" => ret.first = ret.second

\* C3, amended: two orderings of the same scores give the same excluded scores, the same
\* included scores and the same total; the result's all-scores field keeps each
\* ordering's slot order, so the two agree on it as multisets only.
C3_OrderIndependentExceptAllScores ==
    ret.op = "aggregate" =>
        /\ ret.first.excludedScores = ret.second.excludedScores
        /\ ret.first.includedScores = ret.second.includedScores
        /\ ret.first.totalScore = ret.second.totalScore
        /\ ret.first.scores = arg.first
        /\ ret.second.scores = arg.second
        /\ BagOf(ret.first.scores) = BagOf(ret.second.scores)

\* two different orderings, aggregated: same included scores, different all-scores
C3_Witness ==
    /\ ret.op = "aggregate"
    /\ arg.first = Scenario1
    /\ arg.second = Scenario1Sorted
    /\ ret.first.includedScores = <<91, 92, 95>>
    /\ ret.first.totalScore = 278
    /\ ret.first.scores # ret.second.scores

PanelIncomplete ==
    \E i \in 1..Len(judgeInputs) : judgeInputs[i] = <<>> \/ ~ValidateInput(judgeInputs[i]).ok

\* C4: when calculateScore runs with a slot that is empty or fails validation, no
\* delayed computation is scheduled, currentResult stays as it was and exactly one
\* error notification is raised.
C4_Step ==
    (CalculateScore /\ PanelIncomplete) =>
        /\ calcTimers' = calcTimers
        /\ currentResult' = currentResult
        /\ toasts' = <<"error">>

C4_IncompletePanelRefused == [][C4_Step]_vars

\* calculateScore has just refused a panel whose only defect is an out-of-range text
C4_Witness ==
    /\ Len(judgeInputs) = 5
    /\ \A i \in 1..4 : ValidateInput(judgeInputs[i]).ok
    /\ judgeInputs[5] = T11
    /\ toasts = <<"error">>
    /\ calcTimers = <<>>
    /\ currentResult = <<>>
    /\ history = <<>>

InRange(array) == \A i \in 1..Len(array) : 10 <= array[i] /\ array[i] <= 100

\* C5: every score held in currentResult (all, excluded and included scores) and in
\* every history entry committed during the session lies in [1.0, 10.0].
C5_ScoresInRange ==
    /\ currentResult # <<>> =>
          /\ InRange(currentResult[1].scores)
          /\ InRange(currentResult[1].excludedScores)
          /\ InRange(currentResult[1].includedScores)
    /\ \A k \in 1..Len(history) :
          /\ InRange(history[k].allScores)
          /\ InRange(history[k].excludedScores)
          /\ InRange(history[k].includedScores)

SeparatorCount(text) == CountOf(text, Comma) + CountOf(text, Dot)

\* the digits before and after the single separator of a text
IntegerDigits(text) == SelectSeq(SubSeq(text, 1, DigitPrefixLen(text)), IsDigit)
FractionChars(text) == SubSeq(text, DigitPrefixLen(text) + 2, Len(text))

C6_Expected(text) ==
    LET hasDigit == IntegerDigits(text) # <<>> \/ FractionChars(text) # <<>>
        tenths == 10 * DigitsToNat(IntegerDigits(text)) + DigitsToNat(FractionChars(text))
    IN  IF text = <<>> THEN [ok |-> FALSE, cls |-> "", kind |-> "Empty"]
        ELSE IF Len(FractionChars(text)) > 1
        THEN [ok |-> FALSE, cls |-> "is-invalid", kind |-> "TooManyFractionDigits"]
        ELSE IF hasDigit /\ 10 <= tenths /\ tenths <= 100
        THEN [ok |-> TRUE, cls |-> "is-valid", kind |-> "Valid"]
        ELSE [ok |-> FALSE, cls |-> "is-invalid", kind |-> "OutOfRange"]

\* C6: on a text of digits and at most one separator, validateInput succeeds exactly
\* when the text is non-empty, has at most one character after the separator and its
\* value lies in [1.0, 10.0]; the empty text fails unmarked, more than one fraction
\* digit fails as too many fraction digits, every other failure is out of range.
C6_ValidateSingleSeparator ==
    (ret.op = "validateInput" /\ SeparatorCount(ret.before) <= 1) =>
        ret.outcome = C6_Expected(ret.before)

\* "8,5" validated: success
C6_Witness ==
    /\ ret.op = "validateInput"
    /\ ret.before = T85c
    /\ ret.outcome.ok

C8_NormalizationIdempotent ==
    ret.op = "normalize" =>
        /\ NormalizeGetScores(ret.getScores) = ret.getScores
        /\ NormalizeCurrentScores(ret.getCurrentScores) = ret.getCurrentScores
        /\ NormalizeLimit(ret.limitDecimalPlaces) = ret.limitDecimalPlaces
        /\ DebugMultipleSeparators(ret.debug) = ret.debug

\* a text with both separator kinds, one of them twice, normalized to another text
C8_Witness ==
    /\ ret.op = "normalize"
    /\ ret.before = T8c5c2d3
    /\ ret.getScores = <<"8", "5", "2", Dot, "3">>

OneKindRepeated(text) ==
    \/ CountOf(text, Comma) > 1 /\ CountOf(text, Dot) = 0
    \/ CountOf(text, Dot) > 1 /\ CountOf(text, Comma) = 0

\* the text with its first separator turned into a period and every later one deleted
FirstSeparatorKept(text) ==
    LET first == CHOOSE i \in 1..Len(text) :
                    ~IsDigit(text[i]) /\ \A j \in 1..(i - 1) : IsDigit(text[j])
    IN  SubSeq(text, 1, first - 1) \o <<Dot>>
          \o SelectSeq(SubSeq(text, first + 1, Len(text)), IsDigit)

\* C9: on a text holding one kind of separator, more than once, normalization keeps
\* the first occurrence as the decimal point (a period) and deletes the later ones; the
\* digits stay in their order.
C9_FirstOfRepeatedSeparatorKept ==
    (ret.op = "normalize" /\ OneKindRepeated(ret.before)) =>
        /\ ret.getScores = FirstSeparatorKept(ret.before)
        /\ ret.getCurrentScores = FirstSeparatorKept(ret.before)
        /\ ret.limitDecimalPlaces = FirstSeparatorKept(ret.before)
        /\ ret.debug = FirstSeparatorKept(ret.before)

\* "8,5,2" normalized to "8.52"
C9_Witness ==
    /\ ret.op = "normalize"
    /\ ret.before = <<"8", Comma, "5", Comma, "2">>
    /\ ret.getScores = <<"8", Dot, "5", "2">>

OneOfEachKind(text) == CountOf(text, Comma) = 1 /\ CountOf(text, Dot) = 1

\* the text without the left one of its two separators, the right one as a period
RightSeparatorKept(text) ==
    LET left == CHOOSE i \in 1..Len(text) :
                   ~IsDigit(text[i]) /\ \A j \in 1..(i - 1) : IsDigit(text[j])
    IN  [i \in 1..(Len(text) - 1) |->
            LET c == IF i < left THEN text[i] ELSE text[i + 1]
            IN  IF IsDigit(c) THEN c ELSE Dot]

\* C10: on a text with exactly one comma and exactly one period, normalization keeps
\* the rightmost of the two as the decimal point (a period) and deletes the other, so
\* the digits around the deleted one are joined: "8,5.2" becomes "85.2", not "8.52".
C10_RightmostOfCommaAndPeriodKept ==
    (ret.op = "normalize" /\ OneOfEachKind(ret.before)) =>
        /\ ret.getScores = RightSeparatorKept(ret.before)
        /\ ret.getCurrentScores = RightSeparatorKept(ret.before)
        /\ ret.limitDecimalPlaces = RightSeparatorKept(ret.before)
        /\ ret.debug = RightSeparatorKept(ret.before)
        /\ ret.before = T8c5d2 => ret.getScores = <<"8", "5", Dot, "2">>

\* "8,5.2" normalized to "85.2"
C10_Witness ==
    /\ ret.op = "normalize"
    /\ ret.before = T8c5d2
    /\ ret.limitDecimalPlaces = <<"8", "5", Dot, "2">>
    /\ ret.getScores # <<"8", Dot, "5", "2">>

BothKindsOneRepeated(text) ==
    /\ CountOf(text, Comma) > 0
    /\ CountOf(text, Dot) > 0
    /\ (CountOf(text, Comma) > 1 \/ CountOf(text, Dot) > 1)

\* the text with every separator of the other kind removed and, of the kind that comes
\* last in the text, only the first occurrence left, as a period
RightmostKindKept(text) ==
    LET kept == IF LastIndexOf(text, Comma) > LastIndexOf(text, Dot) THEN Comma ELSE Dot
        other == IF kept = Comma THEN Dot ELSE Comma
        only == RemoveAll(text, other)
        first == IndexOf(only, kept) + 1
    IN  SubSeq(only, 1, first - 1) \o <<Dot>>
          \o SelectSeq(SubSeq(only, first + 1, Len(only)), IsDigit)

\* C11: on a text holding both separator kinds, one of them more than once, the kind
\* whose occurrence is rightmost in the text as typed is kept as the decimal point and
\* every occurrence of the other kind is removed.
C11_RightmostKindOfOriginalKept ==
    (ret.op = "normalize" /\ BothKindsOneRepeated(ret.before)) =>
        /\ ret.getScores = RightmostKindKept(ret.before)
        /\ ret.getCurrentScores = RightmostKindKept(ret.before)
        /\ ret.limitDecimalPlaces = RightmostKindKept(ret.before)
        /\ ret.debug = RightmostKindKept(ret.before)

\* the part of a text before its first period, and the part after it
IntegerPart(text) == SubSeq(text, 1, IF Includes(text, Dot) THEN IndexOf(text, Dot) ELSE Len(text))
FractionPart(text) == SubSeq(text, IndexOf(text, Dot) + 2, Len(text))

\* C12: limitDecimalPlaces truncates: when the normalized form of the text has more
\* than one character after the decimal point, the text written back has the same
\* integer part and exactly the first of those characters; with at most one character
\* after the decimal point, the normalized form is written back as it is.
C12_TruncatesNeverRounds ==
    ret.op = "limitDecimalPlaces" =>
        LET normalized == NormalizeLimit(ret.before)
        IN  IF Includes(normalized, Dot) /\ Len(FractionPart(normalized)) > 1
            THEN /\ IntegerPart(arg) = IntegerPart(normalized)
                 /\ FractionPart(arg) = <<FractionPart(normalized)[1]>>
                 /\ CountOf(arg, Dot) = 1
            ELSE arg = normalized

\* "8,55" left on blur: "8.5", not "8.6"
C12_Witness ==
    /\ ret.op = "limitDecimalPlaces"
    /\ ret.before = T8c55
    /\ arg = <<"8", Dot, "5">>

\* C13: the text limitDecimalPlaces writes back holds no comma, at most one period and
\* at most one character after it, so validateInput never refuses it for too many
\* fraction digits or for multiple separators ("8,55" becomes "8.5" and validates to
\* 8.5); limitDecimalPlaces applied to it again leaves it as it is.
C13_BlurredTextWellFormed ==
    ret.op = "limitDecimalPlaces" =>
        /\ CountOf(arg, Comma) = 0
        /\ CountOf(arg, Dot) <= 1
        /\ Includes(arg, Dot) => Len(FractionPart(arg)) <= 1
        /\ ValidateInput(arg).kind \notin {"TooManyFractionDigits", "MultipleSeparators"}
        /\ LimitDecimalPlaces(arg) = arg
        /\ ret.before = T8c55 =>
              /\ arg = <<"8", Dot, "5">>
              /\ ValidateInput(arg).ok
              /\ FieldScore(arg) = 85

\* a text with three separators and two fraction digits, left on blur
C13_Witness ==
    /\ ret.op = "limitDecimalPlaces"
    /\ ret.before = T8c5c2d3
    /\ arg = <<"8", "5", "2", Dot, "3">>
    /\ ~ValidateInput(ret.before).ok

\* C14: validateInput never changes a field's text.  An input event leaves the typed
\* text in its field and every other field as it was; calculateScore, whose getScores
\* validates every field, leaves all texts as they were; the texts change in no step
\* but an input event, a blur event (limitDecimalPlaces) and a re-render.
C14_Step ==
    /\ CalculateScore => judgeInputs' = judgeInputs
    /\ \A i \in 1..Len(judgeInputs), text \in PanelTexts :
          EditField(i, text) => judgeInputs' = [judgeInputs EXCEPT ![i] = text]
    /\ judgeInputs' # judgeInputs =>
          \/ \E i \in 1..Len(judgeInputs), text \in PanelTexts : EditField(i, text)
          \/ \E i \in 1..Len(judgeInputs) : Blur(i)
          \/ Render

C15_Step ==
    /\ (AddJudge /\ currentJudgeCount = maxJudges) =>
          currentJudgeCount' = currentJudgeCount /\ toasts' = <<"warning">>
             /\ rafQueue' = rafQueue
    /\ (RemoveJudge /\ currentJudgeCount = minJudges) =>
          currentJudgeCount' = currentJudgeCount /\ toasts' = <<"warning">>
             /\ rafQueue' = rafQueue

C15_Count ==
    /\ minJudges <= currentJudgeCount
    /\ currentJudgeCount <= maxJudges

\* C15, the panels: every panel calculateScore hands to the aggregation has between
\* minJudges and maxJudges slots
C15_Panels ==
    \A k \in 1..Len(calcTimers) :
        minJudges <= Len(calcTimers[k]) /\ Len(calcTimers[k]) <= maxJudges

\* C15: the judge count stays within [3, 15], addJudge at 15 and removeJudge at 3 only
\* warn, and every panel handed to the aggregation has between 3 and 15 slots.
C15_JudgeCountBounded == [](C15_Count /\ C15_Panels) /\ [][C15_Step]_vars

\* C15 without the panels handed to the aggregation
C15_CountOnly == []C15_Count /\ [][C15_Step]_vars

\* C16: when the re-render an addJudge or removeJudge asked for completes, every
\* retained slot holds the text it held when the operation ran, whatever snapshot is
\* stored.
C16_Step ==
    (rafQueue # <<>> /\ rafQueue' = Tail(rafQueue)) =>
        \A i \in 1..Len(judgeInputs') :
            i <= Len(Head(rafQueue).currentValues) =>
                judgeInputs'[i] = Head(rafQueue).currentValues[i]

C16_ResizeKeepsTexts == [][C16_Step]_vars

\* sub holds some of the entries of list, in the order they have in list
RECURSIVE IsSubsequence(_, _)
IsSubsequence(sub, list) ==
    IF sub = <<>> THEN TRUE
    ELSE IF list = <<>> THEN FALSE
    ELSE IF Head(sub) = Head(list) THEN IsSubsequence(Tail(sub), Tail(list))
    ELSE IsSubsequence(sub, Tail(list))

\* C17, by steps: a commit puts the entry of the committed result in front of the
\* entries the ledger held, in their order; every other step leaves some of the entries
\* in the order they had
C17_Step ==
    /\ Len(history') > Len(history) =>
          /\ currentResult # <<>>
          /\ history'[1] = HistoryEntry(currentResult[1], now)
          /\ Tail(history') = history
    /\ Len(history') <= Len(history) => IsSubsequence(history', history)

\* C17, by state: as the clock never goes back, an entry is never older than the
\* entries behind it
C17_NewestInFront ==
    \A i \in 1..Len(history) : \A j \in i..Len(history) : history[i].id >= history[j].id

\* C17: the ledger is ordered newest first: after commit(a) and then commit(b) the first
\* entry is b's and the second is a's, and after any commits, deletions and clears the
\* remaining entries appear in reverse order of their commits.
C17_LedgerNewestFirst == []C17_NewestInFront /\ [][C17_Step]_vars

\* two commits at different times: the later one's entry is first
C17_Witness ==
    /\ Len(history) = 2
    /\ history[1].id = 1
    /\ history[2].id = 0

\* C18: no two entries of the ledger have the same id.
C18_IdsUnique ==
    \A i \in 1..Len(history) : \A j \in 1..Len(history) :
        i # j => history[i].id # history[j].id

\* C19: deleteHistoryEntry(id) takes exactly the entry with that id out of the ledger;
\* the other entries stay, in their order; with no such entry the ledger stays as it is.
C19_Step ==
    \A id \in 0..MaxClock :
        (\E written \in BOOLEAN : DeleteHistoryEntry(id, written)) =>
            IF \E k \in 1..Len(history) : history[k].id = id
            THEN /\ Len(history') = Len(history) - 1
                 /\ \A k \in 1..Len(history') : history'[k].id # id
                 /\ IsSubsequence(history', history)
            ELSE history' = history

C19_DeleteRemovesOneEntry == [][C19_Step]_vars

\* C20: a commit whose storage write fails leaves the ledger as it was before the
\* commit and raises an error; after any commit the ledger and the stored ledger are
\* the same.
C20_Step ==
    \A written \in BOOLEAN :
        (currentResult # <<>> /\ SaveAndResetWith(written, MaxLedger)) =>
            /\ history' = storedHistory'
            /\ ~written => (history' = history /\ toasts' # <<>>)

C20_CommitAtomicWithStorage == [][C20_Step]_vars

\* what C21 asks of a commit whose storage write fails
C21_CommitCompleted ==
    /\ history' = Unshift(history, HistoryEntry(currentResult[1], now))
    /\ toasts' = <<"error">>
    /\ currentResult' = <<>>
    /\ participantName' = ""
    /\ storedAutoSave' = <<>>
    /\ \A i \in 1..Len(judgeInputs') : judgeInputs'[i] = <<>>

C21_Step ==
    (currentResult # <<>> /\ SaveAndResetWith(FALSE, MaxLedger)) => C21_CommitCompleted

\* C21: a commit whose storage write fails keeps the new entry in the ledger in memory,
\* raises the error notification of the write and nothing else, lets no exception leave
\* saveAndReset, and still resets the form and clears the result.
C21_FailedWriteNotFatal == [][C21_Step]_vars

\* the same for results whose entry the history list can display
C21_DisplayableStep ==
    (/\ currentResult # <<>>
     /\ ~DisplayHistoryThrows(history', "list")
     /\ SaveAndResetWith(FALSE, MaxLedger)) => C21_CommitCompleted

C21_DisplayableOnly == [][C21_DisplayableStep]_vars

\* C22 as stated: a confirmed clearHistory empties the ledger in memory and the stored
\* one; a declined one leaves both as they are.
C22_StatedStep ==
    \A confirmed \in BOOLEAN, written \in BOOLEAN :
        ClearHistory(confirmed, written) =>
            IF confirmed
            THEN history' = <<>> /\ storedHistory' = <<>>
            ELSE history' = history /\ storedHistory' = storedHistory

C22_ClearEmptiesBoth == [][C22_StatedStep]_vars

C22_Step ==
    \A confirmed \in BOOLEAN, written \in BOOLEAN :
        ClearHistory(confirmed, written) =>
            IF confirmed
            THEN /\ history' = <<>>
                 /\ IF written
                    THEN storedHistory' = <<>> /\ toasts' = <<>>
                    ELSE storedHistory' = storedHistory /\ toasts' = <<"error">>
            ELSE history' = history /\ storedHistory' = storedHistory

\* C22: a declined clearHistory leaves the ledger in memory and the stored one as they
\* are; a confirmed one empties the ledger in memory, and the stored one when the write
\* succeeds; when the write fails the stored ledger stays and an error is raised.
C22_ClearOnlyWhenConfirmed == [][C22_Step]_vars

\* a confirmed clearHistory whose write failed: memory empty, both entries still stored
C22_Witness ==
    /\ history = <<>>
    /\ Len(storedHistory) = 2
    /\ toasts = <<"error">>

\* an input event on a judge field or on the participant name
EditStep ==
    \/ \E i \in 1..Len(judgeInputs), text \in LedgerTexts : EditField(i, text)
    \/ \E name \in ParticipantNames : EditName(name)

\* C23, by steps: an edit leaves no write pending that an earlier edit scheduled (the
\* timer pending after an edit is the edit's own debounce timer), and a write is not
\* made while the debounce timer of a later edit is still running
C23_Step ==
    /\ EditStep => ~autoSaveTimeout'
    /\ PerformAutoSave(TRUE) => ~inputTimeout

\* C23: auto-save is debounced on the most recent edit: every edit cancels the write
\* pending from an earlier edit, so the snapshot is written only after a whole debounce
\* window without an edit, and a burst of edits gives one write.
C23_DebouncedOnLastEdit == [][C23_Step]_vars

\* the text the snapshot holds for slot i
SnapshotSlot(snapshot, i) ==
    IF i <= Len(snapshot.judgeScores) THEN snapshot.judgeScores[i] ELSE <<>>

FormEmpty ==
    /\ participantName = ""
    /\ \A i \in 1..Len(judgeInputs) : judgeInputs[i] = <<>>

\* the stored snapshot holds what the form holds
SnapshotCurrent ==
    /\ storedAutoSave # <<>>
    /\ storedAutoSave[1].participantName = participantName
    /\ \A i \in 1..Len(judgeInputs) :
          SnapshotSlot(storedAutoSave[1], i) = GetCurrentScores(judgeInputs)[i]

\* the form holds entries that the stored snapshot does not hold
Unsaved == ~FormEmpty /\ ~SnapshotCurrent

\* C24: every edit is eventually persisted: unless the edits go on for ever, from some
\* moment after the last one the snapshot holds what the form holds or the form was
\* reset, storage writes succeeding and pending timers firing, whatever input events
\* come in between.
C24_EditsEventuallySaved == ([]<><<EditStep>>_vars) \/ <>[](~Unsaved)

\* saveAndReset got as far as resetForm
ResetStep ==
    /\ currentResult # <<>>
    /\ currentResult' = <<>>
    /\ SaveAndReset

\* C25, by steps: after resetForm no auto-save timer is pending, and no snapshot of
\* the form is written while the form is as the reset left it
C25_Step ==
    /\ ResetStep => (~inputTimeout' /\ ~autoSaveTimeout')
    /\ ~(FormEmpty /\ PerformAutoSave(TRUE))

\* C25: a form reset cancels every pending auto-save, at either stage of the debounce:
\* no write scheduled by an edit made before the reset is executed, and the snapshot
\* stays absent until a new edit.
C25_ResetCancelsAutoSave == [][C25_Step]_vars

\* the write of an edit made before the reset, executed after it
C25_StaleWrite == [][~(FormEmpty /\ PerformAutoSave(TRUE))]_vars

\* the keys of localStorage other than the history list
OtherThanHistory == <<storedTheme, storedViewMode>>
OtherThanAutoSave == <<storedHistory, storedTheme, storedViewMode>>
OtherThanTheme == <<storedHistory, storedAutoSave, storedViewMode>>
OtherThanViewMode == <<storedHistory, storedAutoSave, storedTheme>>

\* C26, by steps, for each of the four writes when it fails: only the failure of the
\* write is reported, the steps of the operation that follow the write are made, and
\* the other keys hold what they held
C26_Step ==
    /\ (currentResult # <<>> /\ ~DisplayHistoryThrows(history', "list")
            /\ SaveAndResetWith(FALSE, MaxHistory)) =>
          /\ C21_CommitCompleted
          /\ UNCHANGED OtherThanHistory
    /\ PerformAutoSave(FALSE) =>
          /\ ~autoSaveTimeout'
          /\ UNCHANGED OtherThanAutoSave
    /\ (\E theme \in {"light", "dark"} : theme # dataTheme /\ SetTheme(theme, FALSE)) =>
          /\ themeIcon' = ThemeIconOf(dataTheme')
          /\ UNCHANGED OtherThanTheme
    /\ ToggleView(FALSE) =>
          /\ shownView' = currentView'
          /\ UNCHANGED OtherThanViewMode

\* C26: every storage write is self-contained: when the write of the history list, of
\* the auto-save snapshot, of the theme or of the view mode fails, no exception leaves
\* the operation, its remaining steps in memory and on the page are made, and the
\* other keys keep their stored values.
C26_WritesSelfContained == [][C26_Step]_vars

\* the part of C26 on the history list and the auto-save snapshot
C26_HistoryAndAutoSaveStep ==
    /\ (currentResult # <<>> /\ ~DisplayHistoryThrows(history', "list")
            /\ SaveAndResetWith(FALSE, MaxHistory)) =>
          /\ C21_CommitCompleted
          /\ UNCHANGED OtherThanHistory
    /\ PerformAutoSave(FALSE) =>
          /\ ~autoSaveTimeout'
          /\ UNCHANGED OtherThanAutoSave

C26_HistoryAndAutoSave == [][C26_HistoryAndAutoSaveStep]_vars

\* text.split(separator) for a separator of one character
RECURSIVE Split(_, _)
Split(text, separator) ==
    IF ~Includes(text, separator) THEN <<text>>
    ELSE <<Substring(text, 0, IndexOf(text, separator))>>
            \o Split(SubstringFrom(text, IndexOf(text, separator) + 1), separator)

\* the rows of the exported file
CsvRows == Split(ret.file[1], Newline)

\* the exported file is a header row and a row of six fields for every entry
C27_Rows ==
    /\ Len(CsvRows) = Len(history) + 1
    /\ Split(CsvRows[1], Semicolon) = CsvHeaders
    /\ \A k \in 1..Len(history) :
          LET fields == Split(CsvRows[k + 1], Semicolon)
          IN  /\ Len(fields) = 6
              /\ fields[1] = LocaleString(history[k].timestamp)
              /\ fields[2] = NameChars(history[k].participantName)
              /\ fields[3] = FormatScore(history[k].totalScore)
              /\ fields[4] = FormatScores(history[k].excludedScores)
              /\ fields[5] = FormatScores(history[k].includedScores)
              /\ fields[6] = FormatScores(history[k].allScores)

\* C27: the delimited export of a ledger of n entries, n > 0, whatever the names: a
\* header row and then n rows in ledger order, each of which splits on the semicolon
\* into six fields: timestamp, name, total, excluded, included and all scores.
C27_CsvRowsOfSixFields ==
    (ret.op = "exportCSV" /\ ret.file # <<>>) => C27_Rows

\* for ledgers without a semicolon in a name and without an undefined score the file
\* is made and is as C27 says
C27_PlainLedgers ==
    (/\ ret.op = "exportCSV"
     /\ history # <<>>
     /\ \A k \in 1..Len(history) :
           /\ ~CsvRowThrows(history[k])
           /\ ~Includes(NameChars(history[k].participantName), Semicolon))
        => (ret.file # <<>> /\ C27_Rows)

\* digits, a comma, one digit
OneDecimalComma(text) ==
    /\ Len(text) >= 3
    /\ text[Len(text) - 1] = Comma
    /\ \A i \in 1..Len(text) : i # Len(text) - 1 => \E d \in 1..10 : text[i] = DigitChars[d]

\* the values of a field of scores joined with ', '
JoinedValues(field) ==
    IF field = <<>> THEN <<>>
    ELSE LET parts == Split(field, " ")
         IN  [k \in 1..Len(parts) |->
                 IF k < Len(parts) THEN Substring(parts[k], 0, Len(parts[k]) - 1)
                 ELSE parts[k]]

\* the four numeric fields of a row are its last four
NumericFields(row) ==
    LET fields == Split(row, Semicolon)
    IN  [k \in 1..4 |-> fields[Len(fields) - 4 + k]]

\* C28: in the delimited export every numeric value, the total and each excluded,
\* included and listed score, is written with one digit after a comma and holds no
\* period; the total 27.8 is written "27,8".
C28_OneDecimalWithComma ==
    (ret.op = "exportCSV" /\ ret.file # <<>>) =>
        \A k \in 1..Len(history) :
          LET numeric == NumericFields(CsvRows[k + 1])
          IN  /\ \A f \in 1..4 : ~Includes(numeric[f], Dot)
              /\ OneDecimalComma(numeric[1])
              /\ \A f \in 2..4 :
                    \A v \in 1..Len(JoinedValues(numeric[f])) :
                    OneDecimalComma(JoinedValues(numeric[f])[v])
              /\ history[k].totalScore = 278 =>
                    numeric[1] = <<"2", "7", Comma, "8">>

\* scenario 6: an entry with total 27.8 exported
C28_Witness ==
    /\ ret.op = "exportCSV"
    /\ ret.file # <<>>
    /\ Len(history) = 1
    /\ history[1].totalScore = 278
    /\ NumericFields(CsvRows[2])[1] = <<"2", "7", Comma, "8">>
    /\ NumericFields(CsvRows[2])[4]
          = <<"9", Comma, "2", Comma, " ", "9", Comma, "8", Comma, " ", "9", Comma, "5",
              Comma, " ", "9", Comma, "1", Comma, " ", "8", Comma, "9">>

\* a number of the structured export
IsRawNumber(json, x) == json = [number |-> x]

C29_Exported ==
    (ret.op = "exportJSON" /\ history # <<>>) =>
        /\ ret.file # <<>>
        /\ ret.file[1].totalEntries = [number |-> Len(history)]
        /\ Len(ret.file[1].data) = Len(history)
        /\ \A k \in 1..Len(history) :
              LET json == ret.file[1].data[k]
                  entry == history[k]
              IN  /\ IsRawNumber(json.id, entry.id)
                  /\ json.participantName = [string |-> NameChars(entry.participantName)]
                  /\ IsRawNumber(json.totalScore, entry.totalScore)
                  /\ Len(json.excludedScores) = Len(entry.excludedScores)
                  /\ Len(json.includedScores) = Len(entry.includedScores)
                  /\ Len(json.allScores) = Len(entry.allScores)
                  /\ \A i \in 1..Len(entry.excludedScores) :
                        IsRawNumber(json.excludedScores[i], entry.excludedScores[i])
                  /\ \A i \in 1..Len(entry.includedScores) :
                        IsRawNumber(json.includedScores[i], entry.includedScores[i])
                  /\ \A i \in 1..Len(entry.allScores) :
                        IsRawNumber(json.allScores[i], entry.allScores[i])

\* C29: the structured export of a ledger that is not empty has totalEntries equal to
\* the number of entries and data equal to the entries in ledger order, totals and
\* scores being numbers, not formatted texts; neither export changes the ledger.
C29_JsonIsTheLedger == []C29_Exported /\ [][history' = history]_vars

\* the same for ledgers without an undefined score
C29_DefinedScores ==
    [](((\A k \in 1..Len(history) : ~CsvRowThrows(history[k])) => C29_Exported))
        /\ [][history' = history]_vars

\* the URLs that are answered with an HTML document
HtmlPages == {"/", "/index.html"}

\* C30: the production service worker never stores the response for an HTML document:
\* after any install, activate and fetch events no cache holds an HTML page.
C30_NoHtmlCached ==
    \A name \in DOMAIN caches : caches[name] \cap HtmlPages = {}

(***************************************************************************)
(* C33: the three copies of the separator normalization, in getScores, in  *)
(* getCurrentScores and in limitDecimalPlaces, give the same text for      *)
(* every text over digits, commas and periods.                             *)
(***************************************************************************)
C33_CopiesAgree ==
    ret.op = "normalize" =>
        /\ ret.getScores = ret.getCurrentScores
        /\ ret.getCurrentScores = ret.limitDecimalPlaces

\* a text with both kinds of separator, one of them repeated, has been normalized
C33_Witness ==
    /\ ret.op = "normalize"
    /\ CountOf(ret.before, Comma) > 1
    /\ CountOf(ret.before, Dot) > 0
    /\ ret.getScores # ret.before
    /\ ret.getScores = ret.limitDecimalPlaces

(***************************************************************************)
(* C37: cleanupOldCaches never deletes a cache of the current version,     *)
(* the caches of the critical, static and image strategies included.       *)
(***************************************************************************)
CurrentVersionCaches == {CACHE_NAME, CriticalCache, StaticCache, ImagesCache}

C37_Step ==
    ret'.op \in {"init", "handleActivate"} =>
        \A name \in DOMAIN caches \cap CurrentVersionCaches : name \in DOMAIN caches'

C37_CleanupKeepsCurrentVersion == [][C37_Step]_vars

(***************************************************************************)
(* C34: after saveAndReset has committed and reset the form, currentResult *)
(* is null and stays null until calculateScore is invoked again: no        *)
(* callback of a calculation started before the reset is left to run       *)
(* after it.  The callback assigns currentResult whenever it runs, so a    *)
(* callback pending after the reset is a result set after the reset.       *)
(***************************************************************************)
CallbackPending == calcTimers # <<>>

\* stated for calculations over the scores of a rendered panel
C34_Step ==
    (/\ ResetStep
     /\ currentResult[1].scores # <<>>
     /\ \A k \in 1..Len(calcTimers) : calcTimers[k] # <<>>)
        => (currentResult' = <<>> /\ ~CallbackPending')

C34_NoResultAfterReset == [][C34_Step]_vars

(***************************************************************************)
(* C35: at most one interval of updateTimer is live at any time, and none  *)
(* is live while the timer is stopped (after stopTimer or expiry, until    *)
(* the next startTimer).                                                   *)
(***************************************************************************)
C35_AtMostOneInterval ==
    /\ Cardinality(liveIntervals) <= 1
    /\ timerInterval = <<>> => liveIntervals = {}

(***************************************************************************)
(* C36: the timer data of a history entry is faithful to the round scored: *)
(* the entry says timerUsed only if the timer was started since the        *)
(* previous commit, and timeOverrun only if the timer ran to zero in that  *)
(* round.                                                                  *)
(***************************************************************************)
C36_Step ==
    (currentResult # <<>> /\ SaveAndResetWith(TRUE, MaxLedger)) =>
        LET entry == history'[1]
        IN  /\ "timerUsed" \in DOMAIN entry => arg.startedAt = Len(history)
            /\ ("timeOverrun" \in DOMAIN entry /\ entry.timeOverrun) =>
                  arg.expiredAt = Len(history)

C36_TimerDataFaithful == [][C36_Step]_vars

(***************************************************************************)
(* C31: updates of the service worker are controlled by the user: a new    *)
(* version takes control of the page, and the page is reloaded for it,     *)
(* only after the user has accepted the update prompt (applyUpdate has     *)
(* posted SKIP_WAITING).                                                   *)
(***************************************************************************)
\* stated for a page whose update manager is running
C31_Step ==
    /\ (pageState = "loaded" /\ controller # "" /\ controller' # controller)
          => updateAccepted
    /\ (reloadTimer' /\ ~reloadTimer) => updateAccepted

C31_UpdatesUserControlled == [][C31_Step]_vars

(***************************************************************************)
(* C32: after a deployment has changed the cache-bust version, the         *)
(* force-reload script clears the caches and reloads finitely often: a     *)
(* load follows that ends without a reload, with the stored version equal  *)
(* to the version of the document.                                         *)
(***************************************************************************)
C32_ReloadsEnd ==
    (pageState = "clearing") ~> (pageState = "loaded" /\ storedCacheVersion = pageVersion)

====
